---------------------------- MODULE Spec2Model ----------------------------
(***************************************************************************)
(* Model of rap2363/ssps: the Block List of src/block_data_structure.rs    *)
(* and the BMSSP recursion of src/bmssp.rs (find_pivots, base_bmssp,       *)
(* bmssp_bounded, bmssp_all), with dijkstra_all of src/dijkstra.rs as the  *)
(* reference, and the alternative lists of src/pq_block_list.rs and        *)
(* src/tree_block_list.rs.                                                 *)
(* Costs are f64 in the source; the model uses integers (all               *)
(* sums of the small weights used are exact in f64), and Inf for           *)
(* f64::INFINITY.  Sequences are 1-based here and 0-based in the source.   *)
(***************************************************************************)
EXTENDS Integers, Sequences, FiniteSets, TLC

VARIABLES
    bl,            \* BlockList under test (SpecBL)
    nops,          \* number of BlockList operations performed (SpecBL)
    last,          \* record of the last BlockList operation (SpecBL)
    pq,            \* reference list of pq_block_list.rs, given the same operations
    tree,          \* the list of tree_block_list.rs (SpecTree)
    neighbors,     \* adjacency: neighbors[u] = sequence of <<v, w>>
    start,         \* source vertex
    min_cost_map,  \* the distance map d
    stack,         \* call stack of bmssp_bounded / find_pivots / base_bmssp
    ret,           \* value returned by the call that just finished
    status,        \* "run" | "done" | "panic"
    dist,          \* the vector returned by bmssp_all (once done)
    prev,          \* vector returned by an earlier call on the same input
    writes         \* the writes to d of the last step: <<vertex, old, new>>

blvars == <<bl, nops, last, pq, tree>>
gvars == <<neighbors, start, min_cost_map, stack, ret, status, dist, prev, writes>>
vars == <<bl, nops, last, pq, tree, neighbors, start, min_cost_map, stack, ret, status, dist, prev,
          writes>>

-----------------------------------------------------------------------------
(* Generic helpers *)

Min2(a, b) == IF a <= b THEN a ELSE b
Max2(a, b) == IF a >= b THEN a ELSE b

SetMin(S) == CHOOSE x \in S : \A y \in S : x <= y
SetMax(S) == CHOOSE x \in S : \A y \in S : x >= y

Range(s) == {s[i] : i \in 1..Len(s)}

RECURSIVE Pow2(_)
Pow2(e) == IF e = 0 THEN 1 ELSE 2 * Pow2(e - 1)

\* Vec::swap_remove(i): the last element takes the place of element i.
SwapRemove(s, i) ==
    [j \in 1..(Len(s) - 1) |-> IF j = i THEN s[Len(s)] ELSE s[j]]

\* VecDeque::remove(i) / Vec::remove(i)
RemoveAt(s, i) ==
    [j \in 1..(Len(s) - 1) |-> IF j < i THEN s[j] ELSE s[j + 1]]

\* VecDeque::insert(i, x): x becomes element i
InsertAt(s, i, x) ==
    [j \in 1..(Len(s) + 1) |-> IF j < i THEN s[j] ELSE IF j = i THEN x ELSE s[j - 1]]

\* slice::sort_by(|a, b| a.1.partial_cmp(&b.1)): stable, ascending by cost.
RECURSIVE InsertSortedAsc(_, _)
InsertSortedAsc(sorted, x) ==
    IF sorted = << >> THEN <<x>>
    ELSE IF sorted[Len(sorted)][2] <= x[2] THEN Append(sorted, x)
    ELSE Append(InsertSortedAsc(SubSeq(sorted, 1, Len(sorted) - 1), x), sorted[Len(sorted)])

RECURSIVE SortAscFrom(_, _, _)
SortAscFrom(s, i, acc) ==
    IF i > Len(s) THEN acc ELSE SortAscFrom(s, i + 1, InsertSortedAsc(acc, s[i]))

SortAsc(s) == SortAscFrom(s, 1, << >>)

\* slice::sort_by(|a, b| b.1.partial_cmp(&a.1)): stable, descending by cost.
RECURSIVE InsertSortedDesc(_, _)
InsertSortedDesc(sorted, x) ==
    IF sorted = << >> THEN <<x>>
    ELSE IF sorted[Len(sorted)][2] >= x[2] THEN Append(sorted, x)
    ELSE Append(InsertSortedDesc(SubSeq(sorted, 1, Len(sorted) - 1), x), sorted[Len(sorted)])

RECURSIVE SortDescFrom(_, _, _)
SortDescFrom(s, i, acc) ==
    IF i > Len(s) THEN acc ELSE SortDescFrom(s, i + 1, InsertSortedDesc(acc, s[i]))

SortDesc(s) == SortDescFrom(s, 1, << >>)

\* HashMap::insert / remove on a function used as a map
MapPut(m, key, v) == [x \in (DOMAIN m) \cup {key} |-> IF x = key THEN v ELSE m[x]]
MapDel(m, key) == [x \in (DOMAIN m) \ {key} |-> m[x]]
EmptyMap == [x \in {} |-> 0]

\* no call has returned a value / no distance vector yet
NoRet == [kind |-> "none", bound |-> 0, nodes |-> << >>, set |-> {}]
NoVec == << >>

-----------------------------------------------------------------------------
(* Block and BlockList: src/block_data_structure.rs *)

\* Block::from_existing
Block(upper_bound, nodes) == [nodes |-> nodes, upper_bound |-> upper_bound]

\* BlockList::new.  panic records that an assertion / unwrap / index of the
\* source aborted the process.
NewBlockList(M, B) ==
    [M |-> M, B |-> B,
     prepend_blocks |-> << >>,
     insert_blocks |-> << Block(B, << >>) >>,
     cost_map |-> EmptyMap,
     panic |-> FALSE]

\* BlockList::len / is_empty (both read the position index)
BLLen(st) == Cardinality(DOMAIN st.cost_map)
BLIsEmpty(st) == DOMAIN st.cost_map = {}

\* mutant of SplitBlocks: the left block keeps the original upper bound too
SplitBlocksKeepsBound(M, upper_bound, all) ==
    << Block(upper_bound, SubSeq(all, 1, (M \div 2) + 1)),
       Block(upper_bound, SubSeq(all, (M \div 2) + 2, Len(all))) >>

\* Block::add, the split: all is the full block plus the new entry, sorted
SplitBlocks(M, upper_bound, all) ==
    << Block(all[(M \div 2) + 2][2], SubSeq(all, 1, (M \div 2) + 1)),
       Block(upper_bound, SubSeq(all, (M \div 2) + 2, Len(all))) >>

\* Block::add.  Result: the one or two blocks that replace the target block.
BlockAdd(M, block, node_id, cost) ==
    IF Len(block.nodes) < M
    THEN << Block(block.upper_bound, Append(block.nodes, <<node_id, cost>>)) >>
    ELSE SplitBlocks(M, block.upper_bound, SortAsc(Append(block.nodes, <<node_id, cost>>)))


\* slice::partition_point(|block| block.upper_bound < cost), as a 1-based
\* index; Len(blocks) + 1 when every block satisfies the predicate.
PartitionPoint(blocks, cost) ==
    IF \E i \in 1..Len(blocks) : ~(blocks[i].upper_bound < cost)
    THEN SetMin({i \in 1..Len(blocks) : ~(blocks[i].upper_bound < cost)})
    ELSE Len(blocks) + 1

\* iter().position(|n| n.0 == node_id): 0 stands for None
Position(nodes, node_id) ==
    IF \E i \in 1..Len(nodes) : nodes[i][1] = node_id
    THEN SetMin({i \in 1..Len(nodes) : nodes[i][1] = node_id})
    ELSE 0

\* if let Some(i) = block.nodes.iter().position(..) { block.nodes.swap_remove(i) }
WithoutNode(nodes, pos) == IF pos > 0 THEN SwapRemove(nodes, pos) ELSE nodes

TakeNode(blocks, idx, node_id) ==
    [blocks EXCEPT ![idx].nodes = WithoutNode(@, Position(@, node_id))]

\* if idx > 0 { blocks[idx - 1].upper_bound = block.upper_bound }
MoveUpperBound(blocks, idx) ==
    IF idx > 1 THEN [blocks EXCEPT ![idx - 1].upper_bound = blocks[idx].upper_bound]
    ELSE blocks

\* remove_from_prepend_list, the handling of a block left empty
DropEmptyPrepend(blocks, idx) ==
    IF blocks[idx].nodes = << >> THEN RemoveAt(MoveUpperBound(blocks, idx), idx)
    ELSE blocks

\* mutant of DropEmptyInsert: a block left empty stays where it is
DropEmptyInsertKeeps(blocks, idx) == blocks


\* mutant of DropEmptyInsert: a block left empty is removed, the last one too
DropEmptyInsertDropsLast(blocks, idx) ==
    IF blocks[idx].nodes = << >> THEN RemoveAt(MoveUpperBound(blocks, idx), idx)
    ELSE blocks
\* remove_from_insert_list, the handling of a block left empty: the last
\* block of D1 is never removed
DropEmptyInsert(blocks, idx) ==
    IF blocks[idx].nodes = << >>
    THEN IF idx # Len(blocks) /\ Len(blocks) # 1
         THEN RemoveAt(MoveUpperBound(blocks, idx), idx)
         ELSE MoveUpperBound(blocks, idx)
    ELSE blocks

\* remove_from_prepend_list once prepend_idx is known
RemoveFromPrependAt(st, node_id, idx) ==
    IF idx = Len(st.prepend_blocks) + 1 THEN [st EXCEPT !.panic = TRUE]
    ELSE [st EXCEPT !.prepend_blocks = DropEmptyPrepend(TakeNode(@, idx, node_id), idx)]

\* BlockList::remove_from_prepend_list
RemoveFromPrependList(st, node_id, cost) ==
    RemoveFromPrependAt(st, node_id, PartitionPoint(st.prepend_blocks, cost))

\* remove_from_insert_list once insert_idx is known
RemoveFromInsertAt(st, node_id, idx) ==
    IF idx = Len(st.insert_blocks) + 1 THEN [st EXCEPT !.panic = TRUE]
    ELSE [st EXCEPT !.insert_blocks = DropEmptyInsert(TakeNode(@, idx, node_id), idx)]

\* BlockList::remove_from_insert_list
RemoveFromInsertList(st, node_id, cost) ==
    RemoveFromInsertAt(st, node_id, PartitionPoint(st.insert_blocks, cost))

\* mutant of UpdateKeeps: the comparison accepts an equal cost
UpdateKeepsOnEqual(st, node_id, new_cost) ==
    IF node_id \in DOMAIN st.cost_map
    THEN new_cost <= st.cost_map[node_id].cost
    ELSE TRUE

\* BlockList::update, the match on the position index: whether the entry is
\* to be (re)added, i.e. the vertex is absent or the new cost is smaller
UpdateKeeps(st, node_id, new_cost) ==
    IF node_id \in DOMAIN st.cost_map
    THEN new_cost < st.cost_map[node_id].cost
    ELSE TRUE

\* BlockList::update, the removal of the old entry
Update(st, node_id, new_cost) ==
    IF node_id \in DOMAIN st.cost_map /\ UpdateKeeps(st, node_id, new_cost)
    THEN IF st.cost_map[node_id].loc = "Prepend"
         THEN RemoveFromPrependList(st, node_id, st.cost_map[node_id].cost)
         ELSE RemoveFromInsertList(st, node_id, st.cost_map[node_id].cost)
    ELSE st

\* insert, the match on the BlockAdditionResult res
ReplaceBlock(blocks, i, res) ==
    IF Len(res) = 1 THEN [blocks EXCEPT ![i] = res[1]]
    ELSE InsertAt([blocks EXCEPT ![i] = res[1]], i + 1, res[2])

\* insert, once the block index i is known
InsertIntoBlock(st, node_id, cost, i) ==
    IF i = Len(st.insert_blocks) + 1 THEN [st EXCEPT !.panic = TRUE]
    ELSE [st EXCEPT !.insert_blocks = ReplaceBlock(@, i, BlockAdd(st.M, @[i], node_id, cost)),
                    !.cost_map = MapPut(@, node_id, [loc |-> "Insert", cost |-> cost])]

\* insert, after update returned true
InsertAfterUpdate(st, node_id, cost) ==
    IF st.panic THEN st
    ELSE InsertIntoBlock(st, node_id, cost, PartitionPoint(st.insert_blocks, cost))

\* BlockList::insert
BLInsert(st, node_id, cost) ==
    IF st.panic THEN st
    ELSE IF ~(cost <= st.B) \/ Len(st.insert_blocks) = 0 THEN [st EXCEPT !.panic = TRUE]
    ELSE IF ~UpdateKeeps(st, node_id, cost) THEN st
    ELSE InsertAfterUpdate(Update(st, node_id, cost), node_id, cost)

\* min_by(...).map_or(block.upper_bound, |n| n.1)
BlockMinOr(block) ==
    IF block.nodes = << >> THEN block.upper_bound
    ELSE SetMin({block.nodes[i][2] : i \in 1..Len(block.nodes)})

\* BlockList::get_minimum_block / get_minimum_upper_bound
GetMinimumUpperBound(st) ==
    IF st.prepend_blocks # << >> THEN BlockMinOr(st.prepend_blocks[1])
    ELSE BlockMinOr(st.insert_blocks[1])

\* batch_prepend, first loop: the index entry written after update returned true
MarkPrepend(st, p) ==
    IF st.panic THEN st
    ELSE [st EXCEPT !.cost_map = MapPut(@, p[1], [loc |-> "Prepend", cost |-> p[2]])]

\* batch_prepend, first loop: <<state, nodes_to_actually_prepend>>
RECURSIVE PrependFilter(_, _, _, _)
PrependFilter(st, pairs, i, acc) ==
    IF i > Len(pairs) \/ st.panic THEN <<st, acc>>
    ELSE IF UpdateKeeps(st, pairs[i][1], pairs[i][2])
    THEN PrependFilter(MarkPrepend(Update(st, pairs[i][1], pairs[i][2]), pairs[i]),
                       pairs, i + 1, Append(acc, pairs[i]))
    ELSE PrependFilter(st, pairs, i + 1, acc)

\* batch_prepend, the drain loop over the batch sorted by descending cost:
\* blocks of ceil(M / 2) entries are pushed to the front
RECURSIVE PrependDrain(_, _)
PrependDrain(st, rest) ==
    IF rest = << >> THEN st
    ELSE PrependDrain(
             [st EXCEPT !.prepend_blocks =
                 <<Block(GetMinimumUpperBound(st),
                         SubSeq(rest, 1, Min2((st.M + 1) \div 2, Len(rest))))>> \o @],
             SubSeq(rest, Min2((st.M + 1) \div 2, Len(rest)) + 1, Len(rest)))

\* batch_prepend, after the first loop; get_minimum_block unwraps the front
\* of D1, and aborts when D1 has no block
PrependActual(st, actual) ==
    IF st.panic THEN st
    ELSE IF actual = << >> THEN st
    ELSE IF st.insert_blocks = << >> THEN [st EXCEPT !.panic = TRUE]
    ELSE IF Len(actual) <= st.M
    THEN [st EXCEPT !.prepend_blocks = <<Block(GetMinimumUpperBound(st), actual)>> \o @]
    ELSE PrependDrain(st, SortDesc(actual))

PrependFiltered(f) == PrependActual(f[1], f[2])

\* BlockList::batch_prepend
BLBatchPrepend(st, pairs) ==
    IF st.panic THEN st
    ELSE PrependFiltered(PrependFilter(st, pairs, 1, << >>))

\* BlockList::get_minimum_cost
GetMinimumCost(st) ==
    Min2(IF st.prepend_blocks # << >> THEN BlockMinOr(st.prepend_blocks[1]) ELSE st.B,
         IF st.insert_blocks # << >> THEN BlockMinOr(st.insert_blocks[1]) ELSE st.B)

\* pull_elements, one candidate loop: walk the blocks from the front, sort
\* each touched block in place and take up to num_to_pull entries of it, until
\* exactly num_to_pull candidates are gathered.
\* Result: <<blocks with the touched ones sorted, candidates>>
RECURSIVE Candidates(_, _, _, _)
TakeCandidates(blocks, i, num_to_pull, acc, sorted) ==
    Candidates([blocks EXCEPT ![i].nodes = sorted], i + 1, num_to_pull,
               acc \o SubSeq(sorted, 1, Min2(num_to_pull, Len(sorted))))

Candidates(blocks, i, num_to_pull, acc) ==
    IF i > Len(blocks) \/ (i > 1 /\ Len(acc) = num_to_pull) THEN <<blocks, acc>>
    ELSE TakeCandidates(blocks, i, num_to_pull, acc, SortAsc(blocks[i].nodes))

\* pull_elements, the merge loop: the removal of a pulled vertex
Unindex(st, node_id) ==
    IF st.panic THEN st ELSE [st EXCEPT !.cost_map = MapDel(@, node_id)]

\* pull_elements, the merge loop.  Result: <<state, pulled_elements>>
RECURSIVE Merge(_, _, _, _, _)
Merge(st, pe, ie, num_to_pull, pulled) ==
    IF st.panic \/ (pe = << >> /\ ie = << >>) \/ ~(Len(pulled) < num_to_pull)
    THEN <<st, pulled>>
    ELSE IF (IF pe # << >> THEN pe[1][2] ELSE st.B) < (IF ie # << >> THEN ie[1][2] ELSE st.B)
    THEN Merge(Unindex(RemoveFromPrependList(st, pe[1][1], pe[1][2]), pe[1][1]),
               Tail(pe), ie, num_to_pull, Append(pulled, pe[1][1]))
    ELSE IF ie = << >> THEN <<[st EXCEPT !.panic = TRUE], pulled>>
    ELSE Merge(Unindex(RemoveFromInsertList(st, ie[1][1], ie[1][2]), ie[1][1]),
               pe, Tail(ie), num_to_pull, Append(pulled, ie[1][1]))

\* pull_elements, after the candidate loops (p over D0, q over D1)
MergeCandidates(st, p, q, num_to_pull) ==
    Merge([st EXCEPT !.prepend_blocks = p[1], !.insert_blocks = q[1]],
          p[2], q[2], num_to_pull, << >>)

\* BlockList::pull_elements
PullElements(st, num_to_pull) ==
    MergeCandidates(st, Candidates(st.prepend_blocks, 1, num_to_pull, << >>),
                    Candidates(st.insert_blocks, 1, num_to_pull, << >>), num_to_pull)

\* BlockList::pull, the while loop.  Result: <<state, pulled_elements>>
RECURSIVE PullLoop(_, _)
PullStep(pulled, r) ==
    IF r[1].panic \/ Len(r[2]) = 0 THEN <<r[1], pulled>>
    ELSE PullLoop(r[1], pulled \o r[2])

PullLoop(st, pulled) ==
    IF st.panic \/ ~(Len(pulled) < st.M) THEN <<st, pulled>>
    ELSE PullStep(pulled, PullElements(st, st.M - Len(pulled)))

PullResult(r) == [st |-> r[1], nodes |-> r[2], bound |-> GetMinimumCost(r[1])]

\* BlockList::pull.  Result: [st, nodes, bound] (PullResult plus the list)
BLPull(st) == PullResult(PullLoop(st, << >>))

-----------------------------------------------------------------------------
(* The reference Block List backed by a priority queue with decrease-key:     *)
(* src/pq_block_list.rs.  pq maps each queued vertex to its key.              *)

\* pq_block_list::BlockList::new
PQNew(M, B) == [M |-> M, B |-> B, pq |-> EmptyMap, panic |-> FALSE]

\* pq_block_list::BlockList::len / is_empty
PQLen(st) == Cardinality(DOMAIN st.pq)
PQIsEmpty(st) == DOMAIN st.pq = {}

\* BinaryHeapWithMap::decrease_key_or_push (orx_priority_queue, not part of
\* the repository): a queued vertex keeps the smaller key, a new one is pushed
DecreaseKeyOrPush(q, node_id, cost) ==
    IF node_id \in DOMAIN q THEN [q EXCEPT ![node_id] = Min2(@, cost)]
    ELSE MapPut(q, node_id, cost)

\* pq_block_list::BlockList::insert
PQInsert(st, node_id, cost) ==
    IF st.panic THEN st
    ELSE IF ~(cost <= st.B) THEN [st EXCEPT !.panic = TRUE]
    ELSE [st EXCEPT !.pq = DecreaseKeyOrPush(@, node_id, cost)]

\* pq_block_list::BlockList::batch_prepend
RECURSIVE PQBatchPrepend(_, _)
PQBatchPrepend(st, pairs) ==
    IF pairs = << >> THEN st
    ELSE PQBatchPrepend(PQInsert(st, pairs[1][1], pairs[1][2]), Tail(pairs))

\* the vertices pq.pop() may return: those of least key (the heap breaks ties
\* by its layout)
PQMinNodes(q) == {v \in DOMAIN q : \A u \in DOMAIN q : q[v] <= q[u]}

\* pq_block_list::BlockList::pull, the loop: the sequences n pops may return
RECURSIVE PQPops(_, _)
PQPops(q, n) ==
    IF n = 0 \/ DOMAIN q = {} THEN {<< >>}
    ELSE UNION {{<<v>> \o s : s \in PQPops(MapDel(q, v), n - 1)} : v \in PQMinNodes(q)}

\* the queue without the popped vertices
PQWithout(q, s) == [v \in (DOMAIN q) \ Range(s) |-> q[v]]

\* pq_block_list::BlockList::get_minimum_bound
PQGetMinimumBound(st) ==
    IF DOMAIN st.pq = {} THEN st.B ELSE SetMin({st.pq[v] : v \in DOMAIN st.pq})

\* pq_block_list::BlockList::pull with the pops returning s
PQPull(st, s) == [st EXCEPT !.pq = PQWithout(@, s)]

-----------------------------------------------------------------------------
(* The Block List backed by an ordered map: src/tree_block_list.rs.           *)
(* tree_map maps a key (OrderedCost) to one vertex, nodes_to_costs a vertex   *)
(* to its key.                                                                *)

\* OrderedCost::new: the sign bit is flipped for a non-negative value and all
\* bits for a negative one; a key is <<flipped sign bit, value>>
OrderedCostNew(f) == IF f < 0 THEN <<0, f>> ELSE <<1, f>>

\* OrderedCost::as_f64
OrderedCostAsF64(key) == key[2]

\* Ord for OrderedCost: the order of the transformed bits
OrderedCostLeq(a, b) == a[1] < b[1] \/ (a[1] = b[1] /\ a[2] <= b[2])

\* tree_block_list::BlockList::new
TreeNew(M, B) == [M |-> M, B |-> B, tree_map |-> EmptyMap, nodes_to_costs |-> EmptyMap]

\* tree_block_list::BlockList::len / is_empty
TreeLen(st) == Cardinality(DOMAIN st.tree_map)
TreeIsEmpty(st) == DOMAIN st.tree_map = {}

\* insert, the Occupied arm
TreeInsertOccupied(st, node_id, old_cost, new_cost) ==
    IF OrderedCostLeq(old_cost, new_cost) THEN st
    ELSE [st EXCEPT !.tree_map = MapPut(MapDel(@, old_cost), new_cost, node_id),
                    !.nodes_to_costs = MapPut(@, node_id, new_cost)]

\* insert, the Vacant arm
TreeInsertVacant(st, node_id, new_cost) ==
    [st EXCEPT !.tree_map = MapPut(@, new_cost, node_id),
               !.nodes_to_costs = MapPut(@, node_id, new_cost)]

\* tree_block_list::BlockList::insert (called with cost <= B)
TreeInsert(st, node_id, cost) ==
    IF node_id \in DOMAIN st.nodes_to_costs
    THEN TreeInsertOccupied(st, node_id, st.nodes_to_costs[node_id], OrderedCostNew(cost))
    ELSE TreeInsertVacant(st, node_id, OrderedCostNew(cost))

\* BTreeMap::first_key_value / pop_first: the least key
TreeFirstKey(m) == CHOOSE k \in DOMAIN m : \A j \in DOMAIN m : OrderedCostLeq(k, j)

\* tree_block_list::BlockList::get_minimum_bound
TreeGetMinimumBound(st) ==
    IF DOMAIN st.tree_map = {} THEN st.B ELSE OrderedCostAsF64(TreeFirstKey(st.tree_map))

\* pull, one turn of the loop with first the least key
TreePop(st, first) ==
    [st EXCEPT !.tree_map = MapDel(@, first),
               !.nodes_to_costs = MapDel(@, st.tree_map[first])]

\* pull, the loop.  Result: <<state, pulled_elements>>
RECURSIVE TreePullLoop(_, _, _)
TreePullLoop(st, n, pulled) ==
    IF n = 0 \/ DOMAIN st.tree_map = {} THEN <<st, pulled>>
    ELSE TreePullLoop(TreePop(st, TreeFirstKey(st.tree_map)), n - 1,
                      Append(pulled, st.tree_map[TreeFirstKey(st.tree_map)]))

\* tree_block_list::BlockList::pull.  Result: [st, nodes, bound]
TreePullResult(r) == [st |-> r[1], nodes |-> r[2], bound |-> TreeGetMinimumBound(r[1])]
TreePull(st) == TreePullResult(TreePullLoop(st, st.M, << >>))

-----------------------------------------------------------------------------
(* The Block List driven by its public operations (SpecBL): M >= 1, and      *)
(* batch_prepend is called with every cost strictly below every cost in the   *)
(* list (its only precondition).  insert is offered costs above B as well:    *)
(* that call aborts, and an aborted list takes no further operation.          *)

MaxM == 2          \* block capacities 1..MaxM
BoundB == 2        \* the list bound B
MaxCost == 3       \* costs offered to the list range over 0..MaxCost
NumVertices == 3   \* vertices 0..NumVertices-1 offered to the list
MaxBatch == 3      \* longest batch handed to batch_prepend
MaxOps == 4        \* operations per run

Vertices == 0..(NumVertices - 1)
Costs == 0..MaxCost

\* the position index read as vertex -> cost
CostOf(st) == [v \in DOMAIN st.cost_map |-> st.cost_map[v].cost]

\* all entries stored in the blocks of a sequence of blocks
RECURSIVE Entries(_)
Entries(blocks) ==
    IF blocks = << >> THEN << >> ELSE blocks[1].nodes \o Entries(Tail(blocks))

AllEntries(st) == Entries(st.prepend_blocks) \o Entries(st.insert_blocks)

\* Batches: sequences of n pairs over distinct vertices, listed by ascending
\* vertex id (bmssp_bounded collects the batch from a HashMap keyed by vertex)
Batches(n) ==
    {b \in [1..n -> Vertices \X Costs] : \A i, j \in 1..n : i < j => b[i][1] < b[j][1]}

AllBatches == UNION {Batches(n) : n \in 1..MaxBatch}

\* An entry that the update rule drops: the vertex is present at a cost <= c
NoOpEntry(st, p) == p[1] \in DOMAIN st.cost_map /\ st.cost_map[p[1]].cost <= p[2]

\* An entry meeting the batch_prepend precondition
DominatingEntry(st, p) == \A v \in DOMAIN st.cost_map : p[2] < st.cost_map[v].cost

\* the improving entries of a batch (those the update rule keeps)
Improving(st, pairs) == SelectSeq(pairs, LAMBDA p : ~NoOpEntry(st, p))

\* last: the operation just performed, its arguments and results, the position
\* index (vertex -> cost) and the numbers of blocks of D0 and D1 as they were
\* before the operation, and the result of the same pull on the reference
NoLast == [op |-> "none", v |-> 0, c |-> 0,
           nodes |-> << >>, bound |-> 0, pre_cost |-> EmptyMap,
           pq_nodes |-> << >>, pq_bound |-> 0, pre_d0 |-> 0, pre_d1 |-> 0]

InitBL ==
    /\ \E M \in 1..MaxM : bl = NewBlockList(M, BoundB) /\ pq = PQNew(M, BoundB)
    /\ tree = TreeNew(2, BoundB)
    /\ nops = 0
    /\ last = NoLast
    /\ neighbors = << >> /\ start = 0 /\ min_cost_map = << >> /\ stack = << >>
    /\ ret = NoRet /\ status = "idle" /\ dist = NoVec /\ prev = NoVec /\ writes = << >>

Insert(v, c) ==
    /\ nops < MaxOps /\ ~bl.panic
    /\ bl' = BLInsert(bl, v, c)
    /\ pq' = PQInsert(pq, v, c)
    /\ nops' = nops + 1
    /\ last' = [NoLast EXCEPT !.op = "insert", !.v = v, !.c = c, !.pre_cost = CostOf(bl),
                              !.pre_d0 = Len(bl.prepend_blocks),
                              !.pre_d1 = Len(bl.insert_blocks)]
    /\ UNCHANGED <<tree, gvars>>

BatchPrepend(pairs) ==
    /\ nops < MaxOps /\ ~bl.panic
    /\ \A i \in 1..Len(pairs) : DominatingEntry(bl, pairs[i])
    /\ bl' = BLBatchPrepend(bl, pairs)
    /\ pq' = PQBatchPrepend(pq, pairs)
    /\ nops' = nops + 1
    /\ last' = [NoLast EXCEPT !.op = "batch_prepend", !.pre_cost = CostOf(bl),
                              !.pre_d0 = Len(bl.prepend_blocks),
                              !.pre_d1 = Len(bl.insert_blocks)]
    /\ UNCHANGED <<tree, gvars>>

\* the pops of the reference that return the vertices of nodes when some do,
\* all its pops otherwise
PQPopsLike(q, n, nodes) ==
    IF \E s \in PQPops(q, n) : Range(s) = Range(nodes)
    THEN {s \in PQPops(q, n) : Range(s) = Range(nodes)}
    ELSE PQPops(q, n)

PullBoth(r, s) ==
    /\ bl' = r.st
    /\ pq' = PQPull(pq, s)
    /\ last' = [NoLast EXCEPT !.op = "pull", !.nodes = r.nodes,
                              !.bound = r.bound, !.pre_cost = CostOf(bl),
                              !.pq_nodes = s, !.pq_bound = PQGetMinimumBound(PQPull(pq, s)),
                              !.pre_d0 = Len(bl.prepend_blocks),
                              !.pre_d1 = Len(bl.insert_blocks)]

PullLike(r) == \E s \in PQPopsLike(pq.pq, pq.M, r.nodes) : PullBoth(r, s)

Pull ==
    /\ nops < MaxOps /\ ~bl.panic
    /\ PullLike(BLPull(bl))
    /\ nops' = nops + 1
    /\ UNCHANGED <<tree, gvars>>

NextBL ==
    \/ \E v \in Vertices, c \in Costs : Insert(v, c)
    \/ \E pairs \in AllBatches : BatchPrepend(pairs)
    \/ Pull

SpecBL == InitBL /\ [][NextBL]_vars

-----------------------------------------------------------------------------
(* Block List claims (checked under SpecBL) *)

IsInjective(s) == \A i, j \in 1..Len(s) : i # j => s[i] # s[j]

\* number of entries the blocks hold for vertex v
EntryCount(st, v) ==
    Cardinality({i \in 1..Len(AllEntries(st)) : AllEntries(st)[i][1] = v})

\* C7: a pull that returns hands back exactly min(M, n) vertices, n being the
\* number of distinct vertices present before it: vertices that were present,
\* each once, in ascending order of their current cost, none costlier than a
\* vertex left behind, and all of them removed from the list (index and blocks).
PullReturnsCheapest ==
    (last.op = "pull" /\ ~bl.panic) =>
        LET pre == last.pre_cost
            out == last.nodes
        IN  /\ Len(out) = Min2(bl.M, Cardinality(DOMAIN pre))
            /\ IsInjective(out)
            /\ Range(out) \subseteq DOMAIN pre
            /\ \A i, j \in 1..Len(out) : i < j => pre[out[i]] <= pre[out[j]]
            /\ \A v \in (DOMAIN pre) \ Range(out) :
                   \A i \in 1..Len(out) : pre[out[i]] <= pre[v]
            /\ DOMAIN bl.cost_map = (DOMAIN pre) \ Range(out)
            /\ \A v \in Range(out) : EntryCount(bl, v) = 0

\* C8: the bound a pull returns is the smallest current cost among the
\* vertices still present, and B when none is left.
PullBoundIsMinRemaining ==
    (last.op = "pull" /\ ~bl.panic) =>
        last.bound = IF BLIsEmpty(bl) THEN bl.B
                     ELSE SetMin({bl.cost_map[v].cost : v \in DOMAIN bl.cost_map})

\* C9: after insert(v, c') of a present vertex at a smaller cost, v is stored
\* in exactly one block, with cost c', the index records c' and len() is
\* unchanged.
DecreaseInsertRemovesOld ==
    (/\ last.op = "insert" /\ ~bl.panic
     /\ last.v \in DOMAIN last.pre_cost
     /\ last.pre_cost[last.v] > last.c) =>
        /\ EntryCount(bl, last.v) = 1
        /\ \A i \in 1..Len(AllEntries(bl)) :
               AllEntries(bl)[i][1] = last.v => AllEntries(bl)[i][2] = last.c
        /\ bl.cost_map[last.v].cost = last.c
        /\ BLLen(bl) = Cardinality(DOMAIN last.pre_cost)

\* C10: in every reachable list state, insert(v, c') of a vertex present at a
\* cost c_old <= c' returns the list as it was (blocks, upper bounds, index,
\* len), and batch_prepend of a batch has the effect of the same batch without
\* its entries (v, c') for vertices present at a cost c_old <= c'.
NoOpWhenNotImproving ==
    /\ \A v \in DOMAIN bl.cost_map : \A c \in Costs :
           (c <= bl.B /\ bl.cost_map[v].cost <= c) => BLInsert(bl, v, c) = bl
    /\ \A pairs \in AllBatches :
           (/\ \E i \in 1..Len(pairs) : NoOpEntry(bl, pairs[i])
            /\ \A i \in 1..Len(pairs) :
                   DominatingEntry(bl, pairs[i]) \/ NoOpEntry(bl, pairs[i]))
               => BLBatchPrepend(bl, pairs) = BLBatchPrepend(bl, Improving(bl, pairs))

\* C10 witness: an insert at a cost not below the recorded one has acted on a
\* vertex that lives in D0, in a list that holds another vertex too.
NoOpWitness ==
    /\ last.op = "insert"
    /\ last.v \in DOMAIN last.pre_cost
    /\ last.pre_cost[last.v] <= last.c
    /\ bl.cost_map[last.v].loc = "Prepend"
    /\ BLLen(bl) >= 2

\* the vertices produced by successive pulls, up to the first n of them; r is
\* the result of the pull just made, acc the vertices produced before it
RECURSIVE PullMore(_, _, _, _)
PullMore(r, acc, n, fuel) ==
    IF r.st.panic \/ r.nodes = << >> \/ fuel = 0 \/ Len(acc) + Len(r.nodes) >= n
    THEN [panic |-> r.st.panic,
          nodes |-> SubSeq(acc \o r.nodes, 1, Min2(n, Len(acc) + Len(r.nodes)))]
    ELSE PullMore(BLPull(r.st), acc \o r.nodes, n, fuel - 1)

FirstPulled(st, n) == PullMore(BLPull(st), << >>, n, n)

\* the cost a batch gives to vertex v
BatchCost(pairs, v) == (CHOOSE i \in 1..Len(pairs) : pairs[i][1] = v)

\* out lists exactly the vertices of pairs, each once, by ascending cost
IsBatchAscending(out, pairs) ==
    /\ Len(out.nodes) = Len(pairs)
    /\ IsInjective(out.nodes)
    /\ Range(out.nodes) = {pairs[i][1] : i \in 1..Len(pairs)}
    /\ \A i, j \in 1..Len(out.nodes) :
           i < j => pairs[BatchCost(pairs, out.nodes[i])][2]
                        <= pairs[BatchCost(pairs, out.nodes[j])][2]

\* C11: in every reachable list state, after batch_prepend(pairs) of a batch
\* whose costs are all strictly below every cost in the list, successive pulls
\* return without aborting and the first |pairs| vertices they produce are
\* exactly the vertices of pairs, by ascending cost.
PrependedPulledFirst ==
    ~bl.panic =>
        \A pairs \in AllBatches :
            (\A i \in 1..Len(pairs) : DominatingEntry(bl, pairs[i])) =>
                /\ ~FirstPulled(BLBatchPrepend(bl, pairs), Len(pairs)).panic
                /\ IsBatchAscending(FirstPulled(BLBatchPrepend(bl, pairs), Len(pairs)), pairs)

\* C12: while the reference list of pq_block_list.rs has not aborted, the
\* block-based list given the same operations has not aborted either, both
\* report the same len() and is_empty(), and each pull returns the same set of
\* vertices (the same sequence when the costs in the list were pairwise
\* distinct) and the same bound in both.
AgreesWithPriorityQueue ==
    ~pq.panic =>
        /\ ~bl.panic
        /\ BLLen(bl) = PQLen(pq)
        /\ BLIsEmpty(bl) = PQIsEmpty(pq)
        /\ last.op = "pull" =>
               /\ Range(last.nodes) = Range(last.pq_nodes)
               /\ Len(last.nodes) = Len(last.pq_nodes)
               /\ last.bound = last.pq_bound
               /\ (\A u, v \in DOMAIN last.pre_cost :
                       u # v => last.pre_cost[u] # last.pre_cost[v])
                      => last.nodes = last.pq_nodes

\* C14: an insert(v, c) that has been called leaves the list aborted exactly
\* when c > B.
InsertAbortsOnlyAboveB ==
    last.op = "insert" => (bl.panic <=> last.c > bl.B)

\* the entries of v among the entries of a sequence of blocks
EntriesOf(blocks, v) == SelectSeq(Entries(blocks), LAMBDA e : e[1] = v)

\* the blocks of the sequence the position index names
BlocksAt(st, loc) == IF loc = "Prepend" THEN st.prepend_blocks ELSE st.insert_blocks

\* C16: after every operation the position index and the blocks agree: every
\* indexed vertex has exactly one entry in the blocks, in the sequence the
\* index names and with the indexed cost; no block holds an entry of a vertex
\* that is not indexed; len() is the number of entries in the blocks.
IndexAgreesWithBlocks ==
    ~bl.panic =>
        /\ \A v \in DOMAIN bl.cost_map :
               /\ EntryCount(bl, v) = 1
               /\ EntriesOf(BlocksAt(bl, bl.cost_map[v].loc), v)
                      = << <<v, bl.cost_map[v].cost>> >>
        /\ \A i \in 1..Len(AllEntries(bl)) : AllEntries(bl)[i][1] \in DOMAIN bl.cost_map
        /\ BLLen(bl) = Len(AllEntries(bl))

\* the upper bounds of a sequence of blocks increase strictly
StrictlyIncreasingBounds(blocks) ==
    \A i \in 1..(Len(blocks) - 1) : blocks[i].upper_bound < blocks[i + 1].upper_bound

\* C17: after every operation consecutive blocks of D1 have strictly
\* increasing upper bounds, and so have consecutive blocks of D0.
UpperBoundsIncrease ==
    ~bl.panic =>
        /\ StrictlyIncreasingBounds(bl.insert_blocks)
        /\ StrictlyIncreasingBounds(bl.prepend_blocks)

\* C18: after every operation every cost stored in D0 is strictly less than
\* every cost stored in D1.
PrependDominatesInsert ==
    ~bl.panic =>
        \A i \in 1..Len(Entries(bl.prepend_blocks)) :
            \A j \in 1..Len(Entries(bl.insert_blocks)) :
                Entries(bl.prepend_blocks)[i][2] < Entries(bl.insert_blocks)[j][2]

\* every entry of every block of the sequence is at most the upper bound of
\* its block and at most B
EntriesWithinBounds(blocks, B) ==
    \A i \in 1..Len(blocks) : \A j \in 1..Len(blocks[i].nodes) :
        blocks[i].nodes[j][2] <= blocks[i].upper_bound /\ blocks[i].nodes[j][2] <= B

\* C19: after every operation every entry (v, c) of every block of D0 and D1
\* has c <= the upper bound of its block and c <= B.
CostsWithinBounds ==
    ~bl.panic =>
        /\ EntriesWithinBounds(bl.prepend_blocks, bl.B)
        /\ EntriesWithinBounds(bl.insert_blocks, bl.B)

\* C20: in every reachable list state D1 has at least one block and its last
\* block has upper bound B; no block of D1 but the last, and no block of D0,
\* is empty.
SentinelAndCollapse ==
    /\ Len(bl.insert_blocks) >= 1
    /\ bl.insert_blocks[Len(bl.insert_blocks)].upper_bound = bl.B
    /\ \A i \in 1..(Len(bl.insert_blocks) - 1) : bl.insert_blocks[i].nodes # << >>
    /\ \A i \in 1..Len(bl.prepend_blocks) : bl.prepend_blocks[i].nodes # << >>

\* C20 witness: a pull has emptied a block of D1, the block is gone, and the
\* list still holds vertices behind the sentinel rule.
CollapseWitness ==
    /\ ~bl.panic /\ last.op = "pull"
    /\ Len(bl.insert_blocks) < last.pre_d1
    /\ ~BLIsEmpty(bl)

\* number of occurrences of e in the sequence s
SeqCount(s, e) == Cardinality({k \in 1..Len(s) : s[k] = e})

\* left and right are the two halves of all: nothing lost, nothing duplicated
SplitsInto(all, left, right) ==
    \A e \in Range(all) \cup Range(left) \cup Range(right) :
        SeqCount(left \o right, e) = SeqCount(all, e)

\* the split of block old (D1 block i of list st, full) by entry <<v, c>>,
\* res being the list insert leaves
SplitHolds(st, old, v, c, i, res) ==
    /\ ~res.panic
    /\ Len(res.insert_blocks) = Len(st.insert_blocks) + 1
    /\ \A j \in 1..(i - 1) : res.insert_blocks[j] = st.insert_blocks[j]
    /\ \A j \in (i + 1)..Len(st.insert_blocks) :
           res.insert_blocks[j + 1] = st.insert_blocks[j]
    /\ res.prepend_blocks = st.prepend_blocks
    /\ Len(res.insert_blocks[i].nodes) = (st.M + 2) \div 2
    /\ Len(res.insert_blocks[i + 1].nodes) = st.M + 1 - ((st.M + 2) \div 2)
    /\ \A a \in Range(res.insert_blocks[i].nodes) :
           \A b \in Range(res.insert_blocks[i + 1].nodes) : a[2] <= b[2]
    /\ res.insert_blocks[i].upper_bound = BlockMinOr(res.insert_blocks[i + 1])
    /\ res.insert_blocks[i + 1].upper_bound = old.upper_bound
    /\ SplitsInto(Append(old.nodes, <<v, c>>),
                  res.insert_blocks[i].nodes, res.insert_blocks[i + 1].nodes)

\* st is the list after update removed the old entry of v, i the D1 block the
\* partition search picks for cost c
SplitWhenFull(st, v, c, i) ==
    (/\ ~st.panic /\ i <= Len(st.insert_blocks)
     /\ Len(st.insert_blocks[i].nodes) = st.M) =>
        SplitHolds(st, st.insert_blocks[i], v, c, i, InsertAfterUpdate(st, v, c))

SplitAfterUpdate(st, v, c) ==
    SplitWhenFull(st, v, c, PartitionPoint(st.insert_blocks, c))

\* C21: in every reachable list state, for every capacity M >= 1, an insert
\* whose target D1 block already holds M entries replaces that block by two
\* adjacent blocks: the left one holds the ceil((M+1)/2) cheapest of the M+1
\* entries and has as upper bound the minimum cost of the right one, the right
\* one holds the others and keeps the original upper bound, every other block
\* stays as it was, and no entry is lost or duplicated.
SplitOnOverflow ==
    \A v \in Vertices : \A c \in Costs :
        (~bl.panic /\ c <= bl.B /\ UpdateKeeps(bl, v, c)) =>
            /\ BLInsert(bl, v, c) = InsertAfterUpdate(Update(bl, v, c), v, c)
            /\ SplitAfterUpdate(Update(bl, v, c), v, c)

\* C21 witness: an insert has split a full block of D1 that is not the only
\* one.
SplitWitness ==
    /\ ~bl.panic /\ last.op = "insert"
    /\ last.pre_d1 >= 2
    /\ Len(bl.insert_blocks) = last.pre_d1 + 1


\* the minimum cost held by the blocks of D0 and D1 together, B when they
\* hold nothing
ListMinimum(st) ==
    IF AllEntries(st) = << >> THEN st.B
    ELSE SetMin({AllEntries(st)[i][2] : i \in 1..Len(AllEntries(st))})

\* the list as it was just before front block j of D0 was pushed
BeforePush(res, j) ==
    [res EXCEPT !.prepend_blocks = SubSeq(@, j + 1, Len(@))]

\* filtered is the list after the first loop of batch_prepend, res the list
\* batch_prepend leaves: the blocks pushed are the front blocks of res that
\* filtered does not have
PushedBoundsAreMinimum(filtered, res) ==
    \A j \in 1..(Len(res.prepend_blocks) - Len(filtered.prepend_blocks)) :
        res.prepend_blocks[j].upper_bound = ListMinimum(BeforePush(res, j))

\* C22: in every reachable list state, every block that a batch_prepend
\* meeting its precondition pushes at the front of D0 gets as upper bound the
\* minimum cost present in D0 and D1 together just before that block is
\* pushed, or B if the list is empty at that moment.
PrependBoundIsListMinimum ==
    \A pairs \in AllBatches :
        (/\ ~bl.panic
         /\ \A i \in 1..Len(pairs) : DominatingEntry(bl, pairs[i])
         /\ ~BLBatchPrepend(bl, pairs).panic) =>
            PushedBoundsAreMinimum(PrependFilter(bl, pairs, 1, << >>)[1],
                                   BLBatchPrepend(bl, pairs))


\* C34: in every list state reached by inserts with c <= B, batch_prepends
\* meeting the precondition and pulls, in which no cost exceeds B, pull
\* returns a result without aborting.
PullNeverAborts ==
    (/\ ~bl.panic
     /\ \A i \in 1..Len(AllEntries(bl)) : AllEntries(bl)[i][2] <= bl.B) =>
        ~BLPull(bl).st.panic

-----------------------------------------------------------------------------
(* The tree-backed list driven by insert (cost <= B) and pull (SpecTree)      *)

TreeInsertOp(v, c) ==
    /\ nops < MaxOps
    /\ c <= tree.B
    /\ tree' = TreeInsert(tree, v, c)
    /\ nops' = nops + 1
    /\ last' = [NoLast EXCEPT !.op = "insert", !.v = v, !.c = c]
    /\ UNCHANGED <<bl, pq>>
    /\ UNCHANGED gvars

TreePullOp ==
    /\ nops < MaxOps
    /\ tree' = TreePull(tree).st
    /\ nops' = nops + 1
    /\ last' = [NoLast EXCEPT !.op = "pull", !.nodes = TreePull(tree).nodes,
                              !.bound = TreePull(tree).bound]
    /\ UNCHANGED <<bl, pq>>
    /\ UNCHANGED gvars

InitTree ==
    /\ \E M \in 2..MaxM : tree = TreeNew(M, BoundB)
    /\ bl = NewBlockList(2, BoundB) /\ pq = PQNew(2, BoundB)
    /\ nops = 0
    /\ last = NoLast
    /\ neighbors = << >> /\ start = 0 /\ min_cost_map = << >> /\ stack = << >>
    /\ ret = NoRet /\ status = "idle" /\ dist = NoVec /\ prev = NoVec /\ writes = << >>

NextTree ==
    \/ \E v \in Vertices, c \in Costs : TreeInsertOp(v, c)
    \/ TreePullOp

SpecTree == InitTree /\ [][NextTree]_vars

\* C13: in the tree-backed list every vertex inserted and not yet pulled (the
\* vertices of nodes_to_costs) is stored in the tree under its cost, equal
\* costs of distinct vertices included: len() counts every such vertex, a pull
\* can return each of them, and no insert removes the entry of another vertex.
TreeHoldsEveryVertex ==
    /\ TreeLen(tree) = Cardinality(DOMAIN tree.nodes_to_costs)
    /\ \A v \in DOMAIN tree.nodes_to_costs :
           /\ tree.nodes_to_costs[v] \in DOMAIN tree.tree_map
           /\ tree.tree_map[tree.nodes_to_costs[v]] = v

-----------------------------------------------------------------------------
(* Shortest paths: src/bmssp.rs, with src/dijkstra.rs as the reference.      *)
(* A graph is a function neighbors: 0..n-1 -> sequence of <<v, w>>.  The      *)
(* call stack holds one frame per active call of bmssp_bounded, find_pivots   *)
(* or base_bmssp; the last frame is the running one.  Iteration over a        *)
(* HashSet / HashMap takes its elements in any order; BinaryHeap::pop takes   *)
(* any of the entries of least cost (State::cmp compares the cost alone).     *)

Inf == 1000000     \* f64::INFINITY

\* cost + weight on f64, the weight being finite
AddCost(a, w) == IF a = Inf THEN Inf ELSE a + w

\* all orders in which the elements of the finite set S can be iterated
SeqsOf(S) ==
    {s \in [1..Cardinality(S) -> S] : \A i, j \in 1..Cardinality(S) : i # j => s[i] # s[j]}

\* bmssp_all: k = max(2, floor(cbrt(log2 N))), which is 2 below N = 2^27
ParamK(n) == IF n >= Pow2(27) THEN 3 ELSE 2

\* bmssp_all: t = floor(log2(N)^(2/3)); log2(N)^(2/3) reaches 1 at N = 2,
\* 2 at N = 2^(2^1.5) = 7.1.., 3 at N = 2^(3^1.5) = 36.6.., 4 at N = 256
ParamT(n) == IF n < 2 THEN 0 ELSE IF n < 8 THEN 1 ELSE IF n < 37 THEN 2 ELSE 3

\* the least l >= from with 2^(t l) >= n, i.e. ceil(log2(n) / t) for t >= 1
RECURSIVE CeilLogOver(_, _, _)
CeilLogOver(n, t, from) ==
    IF Pow2(t * from) >= n THEN from ELSE CeilLogOver(n, t, from + 1)

\* bmssp_all: starting_l = ceil(log2(N) / t) as usize; for N = 1 this is
\* 0.0 / 0.0 = NaN, which the cast turns into 0
StartingL(n) == IF ParamT(n) = 0 THEN 0 ELSE CeilLogOver(n, ParamT(n), 0)

N == Cardinality(DOMAIN neighbors)
K == ParamK(N)
T == ParamT(N)

\* the running frame, the stack without it, the stack with it replaced
Top == stack[Len(stack)]
Popped == SubSeq(stack, 1, Len(stack) - 1)
WithTop(f) == [stack EXCEPT ![Len(stack)] = f]

\* base_bmssp lines 112-117: the locals before the loop; entry_cost keeps
\* min_cost_map[&node_id] as it was on entry
BaseFrame(upper_bound, node_id, d) ==
    [fn |-> "base_bmssp", upper_bound |-> upper_bound, u_init |-> {node_id},
     heap |-> << <<node_id, d[node_id]>> >>, visited_set |-> {},
     max_cost_so_far |-> d[node_id], entry_cost |-> d[node_id]]

\* find_pivots lines 44-49: the locals before the layer loop.  all_layers is
\* also the set of all vertices of layers; last_layer is layers[i - 1], todo
\* the part of it the for loop has yet to visit; cur, branch and walking are
\* the locals of the walk from one leaf; frontier_below_bound records whether
\* every frontier vertex had a cost below bound on entry.
FindPivotsFrame(bound, frontier, d) ==
    [fn |-> "find_pivots", bound |-> bound, frontier |-> frontier, pc |-> "layers",
     frontier_below_bound |-> \A j \in 1..Len(frontier) : d[frontier[j]] < bound,
     i |-> 1, todo |-> Range(frontier), new_layer |-> {}, all_layers |-> Range(frontier),
     bp_map |-> EmptyMap, leaves |-> {}, walking |-> FALSE, cur |-> 0, branch |-> << >>,
     pivots |-> EmptyMap, node_to_root |-> EmptyMap]

\* mutant of BoundedFrame: the list is created with capacity 2^(t l)
BoundedFrameWide(l, upper_bound, frontier, t) ==
    [fn |-> "bmssp_bounded", l |-> l, upper_bound |-> upper_bound, frontier |-> frontier,
     pc |-> "find_pivots", layer_set |-> {},
     block_list |-> NewBlockList(Pow2(t * l), upper_bound),
     min_upper_bound |-> upper_bound, u_set |-> {}, new_frontier |-> << >>,
     current_upper_bound |-> upper_bound, new_upper_bound |-> upper_bound,
     todo |-> {}, batch_prepend_elements |-> EmptyMap]

\* bmssp_bounded lines 153-168 for l >= 1: the locals; the list is created
\* empty with M = 2^(t (l - 1)) and B = upper_bound
BoundedFrame(l, upper_bound, frontier, t) ==
    [fn |-> "bmssp_bounded", l |-> l, upper_bound |-> upper_bound, frontier |-> frontier,
     pc |-> "find_pivots", layer_set |-> {},
     block_list |-> NewBlockList(Pow2(t * (l - 1)), upper_bound),
     min_upper_bound |-> upper_bound, u_set |-> {}, new_frontier |-> << >>,
     current_upper_bound |-> upper_bound, new_upper_bound |-> upper_bound,
     todo |-> {}, batch_prepend_elements |-> EmptyMap]

\* bmssp_bounded line 149: assert_eq!(frontier.len(), 1)
CallPanics(l, frontier) == l = 0 /\ Len(frontier) # 1

\* a call bmssp_bounded(l, upper_bound, frontier): at l = 0 the frame of
\* base_bmssp, else the frame of bmssp_bounded under that of find_pivots
CallFrames(l, upper_bound, frontier, t, d) ==
    IF l = 0 THEN << BaseFrame(upper_bound, frontier[1], d) >>
    ELSE << BoundedFrame(l, upper_bound, frontier, t), FindPivotsFrame(upper_bound, frontier, d) >>

NoWrites == << >>

\* the process aborts (assert, unwrap of None, index out of bounds)
Abort ==
    /\ status' = "panic"
    /\ writes' = NoWrites
    /\ UNCHANGED <<neighbors, start, min_cost_map, stack, ret, dist, prev>>

\* the edge loops over neighbors[node_id] abort on an index out of bounds
\* (&neighbors[node_id]) or on a key the map lacks (min_cost_map[&neighbor_id])
RelaxPanics(node_id) ==
    \/ node_id \notin DOMAIN neighbors
    \/ \E i \in 1..Len(neighbors[node_id]) :
           neighbors[node_id][i][1] \notin DOMAIN min_cost_map

-----------------------------------------------------------------------------
(* find_pivots *)

\* mutant of FPRelaxEdge: the cost of the tail is stored, the weight dropped
FPRelaxEdgeDropsWeight(acc, node_id, neighbor_id, cost_to_node_id, cost, bound) ==
    IF cost_to_node_id <= acc.d[neighbor_id]
    THEN [acc EXCEPT !.d[neighbor_id] = cost_to_node_id,
                     !.writes = Append(@, <<neighbor_id, acc.d[neighbor_id], cost_to_node_id>>),
                     !.new_layer = IF cost_to_node_id < bound THEN @ \cup {neighbor_id} ELSE @,
                     !.bp_map = IF cost_to_node_id < bound
                                THEN MapPut(@, neighbor_id, node_id) ELSE @]
    ELSE acc

\* mutant of FPRelaxEdge: the write is not guarded by the comparison
FPRelaxEdgeUnguarded(acc, node_id, neighbor_id, cost_to_node_id, cost, bound) ==
    [acc EXCEPT !.d[neighbor_id] = AddCost(cost_to_node_id, cost),
                !.writes = Append(@, <<neighbor_id, acc.d[neighbor_id],
                                       AddCost(cost_to_node_id, cost)>>),
                !.new_layer = IF AddCost(cost_to_node_id, cost) < bound
                              THEN @ \cup {neighbor_id} ELSE @,
                !.bp_map = IF AddCost(cost_to_node_id, cost) < bound
                           THEN MapPut(@, neighbor_id, node_id) ELSE @]

\* mutant of FPRelaxEdge: a relaxed vertex joins the layer whatever its cost
FPRelaxEdgeUnbounded(acc, node_id, neighbor_id, cost_to_node_id, cost, bound) ==
    IF AddCost(cost_to_node_id, cost) <= acc.d[neighbor_id]
    THEN [acc EXCEPT !.d[neighbor_id] = AddCost(cost_to_node_id, cost),
                     !.writes = Append(@, <<neighbor_id, acc.d[neighbor_id],
                                            AddCost(cost_to_node_id, cost)>>),
                     !.new_layer = @ \cup {neighbor_id},
                     !.bp_map = MapPut(@, neighbor_id, node_id)]
    ELSE acc

\* find_pivots lines 56-65: the relaxation of one edge node_id -> neighbor_id.
\* acc = [d, writes, new_layer, bp_map]; writes logs <<vertex, old, new>>.
FPRelaxEdge(acc, node_id, neighbor_id, cost_to_node_id, cost, bound) ==
    IF AddCost(cost_to_node_id, cost) <= acc.d[neighbor_id]
    THEN [acc EXCEPT !.d[neighbor_id] = AddCost(cost_to_node_id, cost),
                     !.writes = Append(@, <<neighbor_id, acc.d[neighbor_id],
                                            AddCost(cost_to_node_id, cost)>>),
                     !.new_layer = IF AddCost(cost_to_node_id, cost) < bound
                                   THEN @ \cup {neighbor_id} ELSE @,
                     !.bp_map = IF AddCost(cost_to_node_id, cost) < bound
                                THEN MapPut(@, neighbor_id, node_id) ELSE @]
    ELSE acc

\* find_pivots lines 54-66: the edges of node_id from the i-th on;
\* cost_to_node_id is read once, before the loop
RECURSIVE FPRelaxEdges(_, _, _, _, _, _)
FPRelaxEdges(acc, node_id, cost_to_node_id, edges, i, bound) ==
    IF i > Len(edges) THEN acc
    ELSE FPRelaxEdges(
             FPRelaxEdge(acc, node_id, edges[i][1], cost_to_node_id, edges[i][2], bound),
             node_id, cost_to_node_id, edges, i + 1, bound)

FPStoreRelaxed(f, node_id, acc) ==
    /\ min_cost_map' = acc.d
    /\ writes' = acc.writes
    /\ stack' = WithTop([f EXCEPT !.todo = @ \ {node_id}, !.new_layer = acc.new_layer,
                                  !.bp_map = acc.bp_map])

\* find_pivots lines 52-67: one iteration of the loop over last_layer
FPRelax(node_id) ==
    /\ status = "run" /\ stack # << >>
    /\ Top.fn = "find_pivots" /\ Top.pc = "layers"
    /\ node_id \in Top.todo
    /\ IF RelaxPanics(node_id) THEN Abort
       ELSE /\ FPStoreRelaxed(Top, node_id,
                   FPRelaxEdges([d |-> min_cost_map, writes |-> NoWrites,
                                 new_layer |-> Top.new_layer, bp_map |-> Top.bp_map],
                                node_id, min_cost_map[node_id], neighbors[node_id], 1,
                                Top.bound))
            /\ UNCHANGED <<neighbors, start, ret, status, dist, prev>>
    /\ UNCHANGED blvars

\* find_pivots lines 68-74: the layer is complete and the work done exceeds
\* k |frontier|: return the frontier as pivots
FPEarlyExit ==
    /\ status = "run" /\ stack # << >>
    /\ Top.fn = "find_pivots" /\ Top.pc = "layers" /\ Top.todo = {}
    /\ Cardinality(Top.all_layers \cup Top.new_layer) > K * Len(Top.frontier)
    /\ ret' = [kind |-> "pivots", bound |-> 0, nodes |-> Top.frontier,
               set |-> Top.all_layers \cup Top.new_layer]
    /\ stack' = Popped
    /\ writes' = NoWrites
    /\ UNCHANGED <<blvars, neighbors, start, min_cost_map, status, dist, prev>>

\* find_pivots lines 68-75: the layer is complete, on to layer i + 1
FPNextLayer ==
    /\ status = "run" /\ stack # << >>
    /\ Top.fn = "find_pivots" /\ Top.pc = "layers" /\ Top.todo = {}
    /\ ~(Cardinality(Top.all_layers \cup Top.new_layer) > K * Len(Top.frontier))
    /\ Top.i < K
    /\ stack' = WithTop([Top EXCEPT !.i = @ + 1, !.todo = Top.new_layer, !.new_layer = {},
                                    !.all_layers = @ \cup Top.new_layer])
    /\ writes' = NoWrites
    /\ UNCHANGED <<blvars, neighbors, start, min_cost_map, ret, status, dist, prev>>

\* find_pivots lines 68-81: layer k is complete; its vertices are the leaves
FPLayersDone ==
    /\ status = "run" /\ stack # << >>
    /\ Top.fn = "find_pivots" /\ Top.pc = "layers" /\ Top.todo = {}
    /\ ~(Cardinality(Top.all_layers \cup Top.new_layer) > K * Len(Top.frontier))
    /\ Top.i = K
    /\ stack' = WithTop([Top EXCEPT !.pc = "walk", !.leaves = Top.new_layer,
                                    !.new_layer = {},
                                    !.all_layers = @ \cup Top.new_layer])
    /\ writes' = NoWrites
    /\ UNCHANGED <<blvars, neighbors, start, min_cost_map, ret, status, dist, prev>>

\* find_pivots lines 81-83: the walk from the next leaf begins
FPLeaf(leaf) ==
    /\ status = "run" /\ stack # << >>
    /\ Top.fn = "find_pivots" /\ Top.pc = "walk" /\ ~Top.walking
    /\ leaf \in Top.leaves
    /\ stack' = WithTop([Top EXCEPT !.leaves = @ \ {leaf}, !.walking = TRUE,
                                    !.cur = leaf, !.branch = <<leaf>>])
    /\ writes' = NoWrites
    /\ UNCHANGED <<blvars, neighbors, start, min_cost_map, ret, status, dist, prev>>

\* branch.push(next_node); the model keeps at most MaxBranch entries, more
\* than a walk in a forest over the vertices can collect
MaxBranch == 7

PushBranch(branch, next_node) ==
    IF Len(branch) < MaxBranch THEN Append(branch, next_node) ELSE branch

\* for &node_id in branch.iter() { node_to_root.insert(node_id, root_id) }
RECURSIVE RootAll(_, _, _, _)
RootAll(node_to_root, branch, i, root_id) ==
    IF i > Len(branch) THEN node_to_root
    ELSE RootAll(MapPut(node_to_root, branch[i], root_id), branch, i + 1, root_id)

\* find_pivots lines 84-95: one iteration of the while-let over bp_map
WalkStep(f, next_node) ==
    IF next_node \in DOMAIN f.node_to_root
    THEN [f EXCEPT !.node_to_root = RootAll(@, f.branch, 1, f.node_to_root[next_node]),
                   !.cur = f.node_to_root[next_node]]
    ELSE [f EXCEPT !.branch = PushBranch(@, next_node), !.cur = next_node]

FPWalkStep ==
    /\ status = "run" /\ stack # << >>
    /\ Top.fn = "find_pivots" /\ Top.pc = "walk" /\ Top.walking
    /\ Top.cur \in DOMAIN Top.bp_map
    /\ stack' = WithTop(WalkStep(Top, Top.bp_map[Top.cur]))
    /\ writes' = NoWrites
    /\ UNCHANGED <<blvars, neighbors, start, min_cost_map, ret, status, dist, prev>>

\* pivots.get(&cur).unwrap_or(&0)
GetOr0(m, key) == IF key \in DOMAIN m THEN m[key] ELSE 0

\* mutant of FPLeafEnd: the branch is counted for the leaf it started from
FPLeafEndCountsLeaf ==
    /\ status = "run" /\ stack # << >>
    /\ Top.fn = "find_pivots" /\ Top.pc = "walk" /\ Top.walking
    /\ Top.cur \notin DOMAIN Top.bp_map
    /\ stack' = WithTop([Top EXCEPT
           !.pivots = MapPut(@, Top.branch[1], GetOr0(@, Top.branch[1]) + Len(Top.branch)),
           !.walking = FALSE, !.cur = 0, !.branch = << >>])
    /\ writes' = NoWrites
    /\ UNCHANGED <<blvars, neighbors, start, min_cost_map, ret, status, dist, prev>>

\* find_pivots line 98: the walk reached a vertex without back pointer
FPLeafEnd ==
    /\ status = "run" /\ stack # << >>
    /\ Top.fn = "find_pivots" /\ Top.pc = "walk" /\ Top.walking
    /\ Top.cur \notin DOMAIN Top.bp_map
    /\ stack' = WithTop([Top EXCEPT
           !.pivots = MapPut(@, Top.cur, GetOr0(@, Top.cur) + Len(Top.branch)),
           !.walking = FALSE, !.cur = 0, !.branch = << >>])
    /\ writes' = NoWrites
    /\ UNCHANGED <<blvars, neighbors, start, min_cost_map, ret, status, dist, prev>>

\* find_pivots lines 102-103: the roots counted at least k, in the order the
\* HashMap yields them, and the vertices of all layers
FPReturn ==
    /\ status = "run" /\ stack # << >>
    /\ Top.fn = "find_pivots" /\ Top.pc = "walk" /\ ~Top.walking /\ Top.leaves = {}
    /\ \E order \in SeqsOf({p \in DOMAIN Top.pivots : Top.pivots[p] >= K}) :
           ret' = [kind |-> "pivots", bound |-> 0, nodes |-> order, set |-> Top.all_layers]
    /\ stack' = Popped
    /\ writes' = NoWrites
    /\ UNCHANGED <<blvars, neighbors, start, min_cost_map, status, dist, prev>>

-----------------------------------------------------------------------------
(* base_bmssp *)

\* base_bmssp lines 126-130: the relaxation of one edge of the popped vertex.
\* acc = [d, writes, heap]
BaseRelaxEdge(acc, neighbor_node_id, cost_to_neighbor, upper_bound) ==
    IF cost_to_neighbor <= acc.d[neighbor_node_id] /\ cost_to_neighbor < upper_bound
    THEN [acc EXCEPT !.d[neighbor_node_id] = cost_to_neighbor,
                     !.writes = Append(@, <<neighbor_node_id, acc.d[neighbor_node_id],
                                            cost_to_neighbor>>),
                     !.heap = Append(@, <<neighbor_node_id, cost_to_neighbor>>)]
    ELSE acc

\* base_bmssp lines 125-131: the edges of the popped vertex from the i-th on
RECURSIVE BaseRelaxEdges(_, _, _, _, _)
BaseRelaxEdges(acc, cost, edges, i, upper_bound) ==
    IF i > Len(edges) THEN acc
    ELSE BaseRelaxEdges(
             BaseRelaxEdge(acc, edges[i][1], AddCost(cost, edges[i][2]), upper_bound),
             cost, edges, i + 1, upper_bound)

\* the heap entries BinaryHeap::pop may return: those of least cost
MinEntries(heap) ==
    {i \in 1..Len(heap) : \A j \in 1..Len(heap) : heap[i][2] <= heap[j][2]}

BaseStorePopped(f, node_id, acc) ==
    /\ min_cost_map' = acc.d
    /\ writes' = acc.writes
    /\ stack' = WithTop([f EXCEPT !.heap = acc.heap,
                                  !.visited_set = @ \cup {node_id},
                                  !.u_init = @ \cup {node_id},
                                  !.max_cost_so_far = Max2(@, min_cost_map[node_id])])

BasePopEntry(f, idx) ==
    /\ ~(Cardinality(f.u_init) > K \/ f.heap[idx][1] \in f.visited_set)
    /\ IF RelaxPanics(f.heap[idx][1]) THEN Abort
       ELSE /\ BaseStorePopped(f, f.heap[idx][1],
                   BaseRelaxEdges([d |-> min_cost_map, writes |-> NoWrites,
                                   heap |-> RemoveAt(f.heap, idx)],
                                  f.heap[idx][2], neighbors[f.heap[idx][1]], 1,
                                  f.upper_bound))
            /\ UNCHANGED <<neighbors, start, ret, status, dist, prev>>

\* base_bmssp lines 118-131: one iteration of the loop that does not break
BasePop ==
    /\ status = "run" /\ stack # << >>
    /\ Top.fn = "base_bmssp"
    /\ \E idx \in MinEntries(Top.heap) : BasePopEntry(Top, idx)
    /\ UNCHANGED blvars

\* mutant of BaseResult: the trimmed result keeps the bound it was given
BaseResultKeepsBound(f, d) ==
    [kind |-> "uset", bound |-> f.upper_bound, nodes |-> << >>,
     set |-> IF Cardinality(f.u_init) <= K THEN f.u_init
             ELSE {node_id \in f.u_init : d[node_id] < f.max_cost_so_far}]


\* mutant of BaseResult: the untrimmed result carries no bound
BaseResultUnbounded(f, d) ==
    IF Cardinality(f.u_init) <= K
    THEN [kind |-> "uset", bound |-> Inf, nodes |-> << >>, set |-> f.u_init]
    ELSE [kind |-> "uset", bound |-> f.max_cost_so_far, nodes |-> << >>,
          set |-> {node_id \in f.u_init : d[node_id] < f.max_cost_so_far}]
\* base_bmssp lines 134-138: the value returned
BaseResult(f, d) ==
    IF Cardinality(f.u_init) <= K
    THEN [kind |-> "uset", bound |-> f.upper_bound, nodes |-> << >>, set |-> f.u_init]
    ELSE [kind |-> "uset", bound |-> f.max_cost_so_far, nodes |-> << >>,
          set |-> {node_id \in f.u_init : d[node_id] < f.max_cost_so_far}]

\* base_bmssp lines 118-121 and 134-138: the heap is empty, or the pop finds
\* |u_init| > k or a vertex already visited and the loop breaks
BaseReturn ==
    /\ status = "run" /\ stack # << >>
    /\ Top.fn = "base_bmssp"
    /\ \/ Top.heap = << >>
       \/ \E idx \in MinEntries(Top.heap) :
              Cardinality(Top.u_init) > K \/ Top.heap[idx][1] \in Top.visited_set
    /\ ret' = BaseResult(Top, min_cost_map)
    /\ stack' = Popped
    /\ writes' = NoWrites
    /\ UNCHANGED <<blvars, neighbors, start, min_cost_map, status, dist, prev>>

-----------------------------------------------------------------------------
(* bmssp_bounded, l >= 1 *)

\* bmssp_bounded lines 159-166: the pivots from the i-th on.
\* acc = [block_list, min_upper_bound]; the assert of line 162 fails when
\* dist > upper_bound
RECURSIVE InsertPivots(_, _, _, _, _)
InsertPivots(acc, pivots, i, d, upper_bound) ==
    IF i > Len(pivots) \/ acc.block_list.panic THEN acc
    ELSE IF d[pivots[i]] > upper_bound
    THEN [acc EXCEPT !.block_list.panic = TRUE]
    ELSE InsertPivots([block_list |-> BLInsert(acc.block_list, pivots[i], d[pivots[i]]),
                       min_upper_bound |-> Min2(acc.min_upper_bound, d[pivots[i]])],
                      pivots, i + 1, d, upper_bound)

BoundedStorePivots(f, acc, layer_set) ==
    IF acc.block_list.panic THEN Abort
    ELSE /\ stack' = WithTop([f EXCEPT !.pc = "loop", !.layer_set = layer_set,
                                       !.block_list = acc.block_list,
                                       !.min_upper_bound = acc.min_upper_bound])
         /\ ret' = NoRet
         /\ writes' = NoWrites
         /\ UNCHANGED <<neighbors, start, min_cost_map, status, dist, prev>>

\* bmssp_bounded lines 153-168: find_pivots has returned
BoundedPivots ==
    /\ status = "run" /\ stack # << >>
    /\ Top.fn = "bmssp_bounded" /\ Top.pc = "find_pivots" /\ ret.kind = "pivots"
    /\ BoundedStorePivots(Top,
           InsertPivots([block_list |-> Top.block_list,
                         min_upper_bound |-> Top.upper_bound],
                        ret.nodes, 1, min_cost_map, Top.upper_bound),
           ret.set)
    /\ UNCHANGED blvars

\* bmssp_bounded line 155
MaxSizeUSet(l) == K * Pow2(T * l)

\* bmssp_bounded line 169: the condition of the while loop
LoopGoesOn(f) == Cardinality(f.u_set) < MaxSizeUSet(f.l) /\ ~BLIsEmpty(f.block_list)

BoundedStorePulled(f, r) ==
    IF r.st.panic \/ CallPanics(f.l - 1, r.nodes) THEN Abort
    ELSE /\ stack' = WithTop([f EXCEPT !.pc = "call", !.block_list = r.st,
                                       !.new_frontier = r.nodes,
                                       !.current_upper_bound = r.bound])
                     \o CallFrames(f.l - 1, r.bound, r.nodes, T, min_cost_map)
         /\ writes' = NoWrites
         /\ UNCHANGED <<neighbors, start, min_cost_map, ret, status, dist, prev>>

\* bmssp_bounded lines 169-171: pull and the recursive call
BoundedPull ==
    /\ status = "run" /\ stack # << >>
    /\ Top.fn = "bmssp_bounded" /\ Top.pc = "loop"
    /\ LoopGoesOn(Top)
    /\ BoundedStorePulled(Top, BLPull(Top.block_list))
    /\ UNCHANGED blvars

\* bmssp_bounded lines 171-173: the recursive call has returned
BoundedResume ==
    /\ status = "run" /\ stack # << >>
    /\ Top.fn = "bmssp_bounded" /\ Top.pc = "call" /\ ret.kind = "uset"
    /\ stack' = WithTop([Top EXCEPT !.pc = "relax", !.new_upper_bound = ret.bound,
                                    !.min_upper_bound = ret.bound, !.todo = ret.set,
                                    !.batch_prepend_elements = EmptyMap])
    /\ ret' = NoRet
    /\ writes' = NoWrites
    /\ UNCHANGED <<blvars, neighbors, start, min_cost_map, status, dist, prev>>


\* mutant of BoundedRelaxEdge: a relaxed cost below B_current is staged
\* without the test against B_new
BoundedRelaxEdgeStagesAll(acc, neighbor_node_id, proposed_weight, f) ==
    IF proposed_weight <= acc.d[neighbor_node_id]
    THEN [acc EXCEPT
             !.d[neighbor_node_id] = proposed_weight,
             !.writes = Append(@, <<neighbor_node_id, acc.d[neighbor_node_id],
                                    proposed_weight>>),
             !.block_list =
                 IF f.current_upper_bound <= proposed_weight
                    /\ proposed_weight < f.upper_bound
                 THEN BLInsert(@, neighbor_node_id, proposed_weight) ELSE @,
             !.batch =
                 IF ~(f.current_upper_bound <= proposed_weight
                      /\ proposed_weight < f.upper_bound)
                    /\ proposed_weight < f.current_upper_bound
                 THEN MapPut(@, neighbor_node_id, proposed_weight) ELSE @]
    ELSE acc


\* bmssp_bounded lines 177-186: the relaxation of one edge of a vertex of
\* new_uset.  acc = [d, writes, block_list, batch]
BoundedRelaxEdge(acc, neighbor_node_id, proposed_weight, f) ==
    IF proposed_weight <= acc.d[neighbor_node_id]
    THEN [acc EXCEPT
             !.d[neighbor_node_id] = proposed_weight,
             !.writes = Append(@, <<neighbor_node_id, acc.d[neighbor_node_id],
                                    proposed_weight>>),
             !.block_list =
                 IF f.current_upper_bound <= proposed_weight
                    /\ proposed_weight < f.upper_bound
                 THEN BLInsert(@, neighbor_node_id, proposed_weight) ELSE @,
             !.batch =
                 IF ~(f.current_upper_bound <= proposed_weight
                      /\ proposed_weight < f.upper_bound)
                    /\ f.new_upper_bound <= proposed_weight
                    /\ proposed_weight < f.current_upper_bound
                 THEN MapPut(@, neighbor_node_id, proposed_weight) ELSE @]
    ELSE acc

\* bmssp_bounded lines 176-187: the edges of node_id from the i-th on;
\* min_cost_map[node_id] is read anew for every edge
RECURSIVE BoundedRelaxEdges(_, _, _, _, _)
BoundedRelaxEdges(acc, node_id, edges, i, f) ==
    IF i > Len(edges) \/ acc.block_list.panic THEN acc
    ELSE BoundedRelaxEdges(
             BoundedRelaxEdge(acc, edges[i][1], AddCost(acc.d[node_id], edges[i][2]), f),
             node_id, edges, i + 1, f)

BoundedStoreRelaxed(f, node_id, acc) ==
    IF acc.block_list.panic THEN Abort
    ELSE /\ min_cost_map' = acc.d
         /\ writes' = acc.writes
         /\ stack' = WithTop([f EXCEPT !.todo = @ \ {node_id},
                                       !.u_set = @ \cup {node_id},
                                       !.block_list = acc.block_list,
                                       !.batch_prepend_elements = acc.batch])
         /\ UNCHANGED <<neighbors, start, ret, status, dist, prev>>

\* bmssp_bounded lines 174-188: one iteration of the loop over new_uset
BoundedRelax(node_id) ==
    /\ status = "run" /\ stack # << >>
    /\ Top.fn = "bmssp_bounded" /\ Top.pc = "relax"
    /\ node_id \in Top.todo
    /\ IF RelaxPanics(node_id) THEN Abort
       ELSE BoundedStoreRelaxed(Top, node_id,
                BoundedRelaxEdges([d |-> min_cost_map, writes |-> NoWrites,
                                   block_list |-> Top.block_list,
                                   batch |-> Top.batch_prepend_elements],
                                  node_id, neighbors[node_id], 1, Top))
    /\ UNCHANGED blvars

\* bmssp_bounded lines 190-196: the vertices of new_frontier from the i-th on
RECURSIVE StageFrontier(_, _, _, _, _)
StageFrontier(batch, new_frontier, i, d, f) ==
    IF i > Len(new_frontier) THEN batch
    ELSE StageFrontier(
             IF f.new_upper_bound <= d[new_frontier[i]]
                /\ d[new_frontier[i]] < f.current_upper_bound
             THEN MapPut(batch, new_frontier[i], d[new_frontier[i]]) ELSE batch,
             new_frontier, i + 1, d, f)

\* batch_prepend_elements.into_iter().collect(), the entries taken in order
BatchInOrder(batch, order) == [i \in 1..Len(order) |-> <<order[i], batch[order[i]]>>]

BoundedStorePrepended(f, block_list) ==
    IF block_list.panic THEN Abort
    ELSE /\ stack' = WithTop([f EXCEPT !.pc = "loop", !.block_list = block_list,
                                       !.batch_prepend_elements = EmptyMap])
         /\ writes' = NoWrites
         /\ UNCHANGED <<neighbors, start, min_cost_map, ret, status, dist, prev>>

BoundedPrependBatch(f, batch) ==
    \E order \in SeqsOf(DOMAIN batch) :
        BoundedStorePrepended(f, BLBatchPrepend(f.block_list, BatchInOrder(batch, order)))

\* bmssp_bounded lines 190-197: new_uset is done; stage the frontier vertices
\* and batch_prepend the staged entries
BoundedPrepend ==
    /\ status = "run" /\ stack # << >>
    /\ Top.fn = "bmssp_bounded" /\ Top.pc = "relax" /\ Top.todo = {}
    /\ BoundedPrependBatch(Top,
           StageFrontier(Top.batch_prepend_elements, Top.new_frontier, 1,
                         min_cost_map, Top))
    /\ UNCHANGED blvars

\* bmssp_bounded lines 201-209: the loop has ended
BoundedReturn ==
    /\ status = "run" /\ stack # << >>
    /\ Top.fn = "bmssp_bounded" /\ Top.pc = "loop"
    /\ ~LoopGoesOn(Top)
    /\ ret' = [kind |-> "uset", bound |-> Top.min_upper_bound, nodes |-> << >>,
               set |-> Top.u_set \cup
                       {node_id \in Top.layer_set :
                            min_cost_map[node_id] < Top.min_upper_bound}]
    /\ stack' = Popped
    /\ writes' = NoWrites
    /\ UNCHANGED <<blvars, neighbors, start, min_cost_map, status, dist, prev>>

-----------------------------------------------------------------------------
(* dijkstra_all: src/dijkstra.rs *)

\* dijkstra_all lines 40-46: the edges of the popped vertex from the i-th on.
\* acc = [dist, heap]
RECURSIVE DijkstraRelaxEdges(_, _, _, _)
DijkstraRelaxEdges(acc, cost, edges, i) ==
    IF i > Len(edges) THEN acc
    ELSE DijkstraRelaxEdges(
             IF cost + edges[i][2] < acc.dist[edges[i][1]]
             THEN [acc EXCEPT !.dist[edges[i][1]] = cost + edges[i][2],
                              !.heap = Append(@, <<edges[i][1], cost + edges[i][2]>>)]
             ELSE acc,
             cost, edges, i + 1)

\* dijkstra_all lines 36-47: the loop; pop takes the first entry of least cost
RECURSIVE DijkstraLoop(_, _)
RECURSIVE DijkstraPop(_, _, _)
DijkstraPop(adj, acc, idx) ==
    IF acc.heap[idx][2] > acc.dist[acc.heap[idx][1]]
    THEN DijkstraLoop(adj, [acc EXCEPT !.heap = RemoveAt(@, idx)])
    ELSE DijkstraLoop(adj,
             DijkstraRelaxEdges([acc EXCEPT !.heap = RemoveAt(@, idx)],
                                acc.heap[idx][2], adj[acc.heap[idx][1]], 1))

DijkstraLoop(adj, acc) ==
    IF acc.heap = << >> THEN acc.dist
    ELSE DijkstraPop(adj, acc, SetMin(MinEntries(acc.heap)))

\* bmssp_all lines 219-224 / dijkstra_all lines 30-33: infinity everywhere
\* but 0 at the source (in bmssp_all the insert of the source adds its key
\* to the map when it is not a vertex)
InitialCosts(adj, source) ==
    [node_id \in (DOMAIN adj) \cup {source} |-> IF node_id = source THEN 0 ELSE Inf]

\* dijkstra_all
DijkstraAll(adj, source) ==
    DijkstraLoop(adj, [dist |-> InitialCosts(adj, source), heap |-> << <<source, 0>> >>])

-----------------------------------------------------------------------------
(* bmssp_all, and the runs of it over a family of graphs (Spec) *)

\* bmssp_all lines 214-226
StartCall ==
    /\ min_cost_map' = InitialCosts(neighbors, start)
    /\ stack' = CallFrames(StartingL(N), Inf, <<start>>, T, InitialCosts(neighbors, start))
    /\ status' = "run"
    /\ ret' = NoRet
    /\ dist' = NoVec
    /\ writes' = NoWrites

\* the first call bmssp_all(neighbors, start)
Call ==
    /\ status = "idle"
    /\ StartCall
    /\ UNCHANGED <<blvars, neighbors, start, prev>>

\* a second call on the same adjacency and source; prev keeps the vector the
\* first call returned
CallAgain ==
    /\ status = "done" /\ prev = NoVec
    /\ StartCall
    /\ prev' = dist
    /\ UNCHANGED <<blvars, neighbors, start>>

\* bmssp_all lines 226-232: the top call has returned; dist is read off the map
Finish ==
    /\ status = "run" /\ stack = << >> /\ ret.kind = "uset"
    /\ dist' = [i \in DOMAIN neighbors |-> min_cost_map[i]]
    /\ status' = "done"
    /\ ret' = NoRet
    /\ writes' = NoWrites
    /\ UNCHANGED <<blvars, neighbors, start, min_cost_map, stack, prev>>

NumNodes == 5      \* vertices 0..NumNodes-1 of the graphs
MaxW == 1          \* edge weights range over 0..MaxW

\* The candidate edges <<u, v>> in the order of the adjacency lists: each is
\* absent or carries a weight of 0..MaxW.
Slots == << <<0, 3>>, <<0, 3>>, <<0, 2>>, <<2, 4>>, <<4, 1>>, <<2, 0>>, <<4, 3>> >>

\* a choice gives every slot a weight, Inf standing for an absent edge
Choices == [1..Len(Slots) -> (0..MaxW) \cup {Inf}]

RECURSIVE AdjacencyOf(_, _, _, _)
AdjacencyOf(choice, u, i, acc) ==
    IF i > Len(Slots) THEN acc
    ELSE AdjacencyOf(choice, u, i + 1,
             IF Slots[i][1] = u /\ choice[i] # Inf
             THEN Append(acc, <<Slots[i][2], choice[i]>>) ELSE acc)

Graphs == {[u \in 0..(NumNodes - 1) |-> AdjacencyOf(choice, u, 1, << >>)] : choice \in Choices}

MaxSource == 0     \* sources 0..MaxSource

Init ==
    /\ neighbors \in Graphs
    /\ start \in 0..MaxSource
    /\ status = "idle"
    /\ min_cost_map = << >> /\ stack = << >> /\ ret = NoRet
    /\ dist = NoVec /\ prev = NoVec /\ writes = NoWrites
    /\ bl = NewBlockList(2, 0) /\ nops = 0 /\ last = NoLast /\ pq = PQNew(2, 0)
    /\ tree = TreeNew(2, 0)

Next ==
    \/ Call
    \/ CallAgain
    \/ \E node_id \in DOMAIN min_cost_map : FPRelax(node_id)
    \/ FPEarlyExit
    \/ FPNextLayer
    \/ FPLayersDone
    \/ \E leaf \in DOMAIN neighbors : FPLeaf(leaf)
    \/ FPWalkStep
    \/ FPLeafEnd
    \/ FPReturn
    \/ BoundedPivots
    \/ BoundedPull
    \/ BoundedResume
    \/ \E node_id \in DOMAIN neighbors : BoundedRelax(node_id)
    \/ BoundedPrepend
    \/ BoundedReturn
    \/ BasePop
    \/ BaseReturn
    \/ Finish

Spec == Init /\ [][Next]_vars

\* Invalid inputs: a graph of the family with one more edge 4 -> 1 of weight
\* -1, or with one more edge from vertex 1 to the vertex id n, or with one
\* more vertex whose only edge names the vertex id n + 1, or with the source n.
NegativeEdge(g) == [g EXCEPT ![4] = <<<<1, -1>>>> \o @]
DanglingEdge(g) == [g EXCEPT ![1] = Append(@, <<NumNodes, 1>>)]
DanglingVertex(g) ==
    [u \in 0..NumNodes |-> IF u = NumNodes THEN <<<<NumNodes + 1, 1>>>> ELSE g[u]]

InitInvalid ==
    /\ \/ \E g \in Graphs : neighbors = NegativeEdge(g) /\ start = 0
       \/ \E g \in Graphs : neighbors = DanglingEdge(g) /\ start = 0
       \/ \E g \in Graphs : neighbors = DanglingVertex(g) /\ start = 0
       \/ neighbors \in Graphs /\ start = NumNodes
    /\ status = "idle"
    /\ min_cost_map = << >> /\ stack = << >> /\ ret = NoRet
    /\ dist = NoVec /\ prev = NoVec /\ writes = NoWrites
    /\ bl = NewBlockList(2, 0) /\ nops = 0 /\ last = NoLast /\ pq = PQNew(2, 0)
    /\ tree = TreeNew(2, 0)

SpecInvalid == InitInvalid /\ [][Next]_vars

\* C15: on an invalid input (a negative edge weight, an adjacency entry naming
\* a vertex id >= n, a source outside [0, n)) bmssp_all never returns a
\* distance vector.
InvalidInputNeverReturns == status # "done"

\* the steps of the walk of find_pivots from one leaf
WalkNext == FPWalkStep \/ FPLeafEnd

\* the program is sequential: a walk that can take a step takes it
FairSpec == Spec /\ WF_vars(WalkNext)

-----------------------------------------------------------------------------
(* Shortest-path claims (checked under Spec; C2 under FairSpec) *)

\* C1: whenever bmssp_all returns, its distance vector equals the vector
\* dijkstra_all returns on the same adjacency and source.
ReturnsDijkstra ==
    status = "done" => dist = DijkstraAll(neighbors, start)

\* the walk of find_pivots from a leaf is under way
InWalk == status = "run" /\ stack # << >> /\ Top.fn = "find_pivots" /\ Top.walking

\* C2: bmssp_all terminates; in particular the walk find_pivots starts from a
\* leaf does not run forever: once under way it comes to its end.
WalkEnds == InWalk ~> ~InWalk

\* C3: when bmssp_all returns, every edge (u -> v, w) with d[u] finite has
\* d[v] <= d[u] + w.
AllEdgesRelaxed ==
    status = "done" =>
        \A u \in DOMAIN neighbors : dist[u] # Inf =>
            \A i \in 1..Len(neighbors[u]) :
                dist[neighbors[u][i][1]] <= dist[u] + neighbors[u][i][2]

\* the simple paths from the source, as <<end vertex, weight, vertices on it>>
RECURSIVE PathsFrom(_, _)
PathsFrom(adj, found) ==
    LET more == found \cup
                {<<adj[p[1]][i][1], p[2] + adj[p[1]][i][2], p[3] \cup {adj[p[1]][i][1]}>> :
                     <<p, i>> \in {q \in found \X (1..Len(Slots)) :
                                       /\ q[2] <= Len(adj[q[1][1]])
                                       /\ adj[q[1][1]][q[2]][1] \notin q[1][3]}}
    IN  IF more = found THEN found ELSE PathsFrom(adj, more)

\* the weights of the simple paths from source to v
PathWeights(adj, source, v) ==
    {p[2] : p \in {q \in PathsFrom(adj, {<<source, 0, {source}>>}) : q[1] = v}}

\* C4: in every state of a call, d[source] = 0 and every finite d[v] is the
\* weight of a path from the source to v, hence not below the true distance.
CostsArePathWeights ==
    status \in {"run", "done"} =>
        /\ min_cost_map[start] = 0
        /\ \A v \in DOMAIN min_cost_map :
               min_cost_map[v] # Inf =>
                   /\ min_cost_map[v] \in PathWeights(neighbors, start, v)
                   /\ min_cost_map[v] >= DijkstraAll(neighbors, start)[v]

\* C4 witness: inside a recursive call a vertex holds the weight of a path
\* that is not a shortest one.
LongerPathRecorded ==
    /\ status = "run" /\ Len(stack) >= 3
    /\ \E v \in DOMAIN min_cost_map :
           /\ min_cost_map[v] # Inf
           /\ min_cost_map[v] > DijkstraAll(neighbors, start)[v]

\* C5: every write to d[v] stores a value not above the value held before.
WritesAreMonotone ==
    \A i \in 1..Len(writes) : writes[i][3] <= writes[i][2]

\* C5 witness: below the top call, base_bmssp lowers a finite cost.
FiniteCostLowered ==
    /\ status = "run" /\ Len(stack) >= 3 /\ Top.fn = "base_bmssp"
    /\ \E i \in 1..Len(writes) : writes[i][2] # Inf /\ writes[i][3] < writes[i][2]

\* C6: a second call on the same adjacency and source returns the vector the
\* first call returned, whatever the iteration orders and tie-breaks.
SecondCallReturnsSame ==
    (status = "done" /\ prev # NoVec) => dist = prev


\* the step by which the running base_bmssp frame returns
BaseReturns ==
    /\ status = "run" /\ stack # << >> /\ Top.fn = "base_bmssp"
    /\ stack' = Popped /\ status' = "run"

\* C23: base_bmssp leaves its loop only when |U| > k or its heap is empty, and
\* when it returns the untrimmed result (B_upper, U), every vertex it relaxed
\* to a cost below B_upper (every vertex it pushed on its heap) has been
\* extracted and is in U.
BaseStopsOnlyWhenDone ==
    [][BaseReturns =>
          /\ Cardinality(Top.u_init) > K \/ Top.heap = << >>
          /\ Cardinality(Top.u_init) <= K =>
                 /\ ret'.bound = Top.upper_bound
                 /\ \A i \in 1..Len(Top.heap) : Top.heap[i][1] \in ret'.set]_vars


\* C24: when base_bmssp returns with |U| > k, U holds exactly k + 1 vertices,
\* the bound B' returned is the largest d among the vertices of U, the set
\* returned is that of the vertices of U with d < B', and B' < B_upper
\* provided the frontier vertex had d < B_upper on entry.
BaseTrimmedResult ==
    [][(BaseReturns /\ Cardinality(Top.u_init) > K) =>
          /\ Cardinality(Top.u_init) = K + 1
          /\ ret'.bound = SetMax({min_cost_map[u] : u \in Top.u_init})
          /\ ret'.set = {u \in Top.u_init : min_cost_map[u] < ret'.bound}
          /\ Top.entry_cost < Top.upper_bound => ret'.bound < Top.upper_bound]_vars

\* C24 witness: base_bmssp has returned to its caller at level 1 a bound
\* below the one it was given, and a non-empty set.
BaseTrimmedWitness ==
    /\ status = "run" /\ stack # << >>
    /\ Top.fn = "bmssp_bounded" /\ Top.l = 1 /\ Top.pc = "call"
    /\ ret.kind = "uset" /\ ret.set # {}
    /\ ret.bound < Top.current_upper_bound


\* the step by which the running find_pivots frame returns
FPReturns ==
    /\ status = "run" /\ stack # << >> /\ Top.fn = "find_pivots"
    /\ stack' = Popped /\ status' = "run"

\* C25: every pivot find_pivots returns, by the early exit or after the walk
\* from the leaves, is a vertex of the frontier it was given.
PivotsInFrontier ==
    [][FPReturns => Range(ret'.nodes) \subseteq Range(Top.frontier)]_vars

\* C25 witness: the walks are over, a root has been counted k or more, and a
\* vertex of the frontier has a back pointer.
PivotWithParentedFrontier ==
    /\ status = "run" /\ stack # << >>
    /\ Top.fn = "find_pivots" /\ Top.pc = "walk" /\ ~Top.walking /\ Top.leaves = {}
    /\ \E p \in DOMAIN Top.pivots : Top.pivots[p] >= K
    /\ \E v \in Range(Top.frontier) : v \in DOMAIN Top.bp_map



-----------------------------------------------------------------------------
(* find_pivots called on its own (SpecFP): a graph of the family, the costs   *)
(* of a search from vertex 0 that has settled the vertices within FPRadius,   *)
(* a frontier of settled vertices and a finite bound.                         *)

FPRadius == 1        \* vertices at distance <= FPRadius from 0 have their cost
FPMaxBound == 2      \* bounds 1..FPMaxBound
FPMaxFrontier == 2   \* frontiers of 1..FPMaxFrontier vertices

\* the costs of a search from source that has settled the vertices within r
SettledCosts(adj, source, r) ==
    [v \in DOMAIN adj |-> IF DijkstraAll(adj, source)[v] <= r
                          THEN DijkstraAll(adj, source)[v] ELSE Inf]

\* the vertices of S by ascending id
Ascending(S) == CHOOSE s \in SeqsOf(S) : \A i, j \in 1..Len(s) : i < j => s[i] < s[j]

\* the frontiers offered: 1..FPMaxFrontier vertices of finite cost
Frontiers(d) ==
    {Ascending(S) : S \in {X \in SUBSET {v \in DOMAIN d : d[v] # Inf} :
                               X # {} /\ Cardinality(X) <= FPMaxFrontier}}

InitFP ==
    /\ neighbors \in Graphs
    /\ start = 0
    /\ min_cost_map = SettledCosts(neighbors, 0, FPRadius)
    /\ \E bound \in 1..FPMaxBound : \E frontier \in Frontiers(min_cost_map) :
           stack = << FindPivotsFrame(bound, frontier, min_cost_map) >>
    /\ status = "run" /\ ret = NoRet
    /\ dist = NoVec /\ prev = NoVec /\ writes = NoWrites
    /\ bl = NewBlockList(2, 0) /\ nops = 0 /\ last = NoLast /\ pq = PQNew(2, 0)
    /\ tree = TreeNew(2, 0)

NextFP ==
    \/ \E node_id \in DOMAIN min_cost_map : FPRelax(node_id)
    \/ FPEarlyExit
    \/ FPNextLayer
    \/ FPLayersDone
    \/ \E leaf \in DOMAIN neighbors : FPLeaf(leaf)
    \/ FPWalkStep
    \/ FPLeafEnd
    \/ FPReturn

SpecFP == InitFP /\ [][NextFP]_vars

-----------------------------------------------------------------------------
(* find_pivots claims (C26 checked under SpecFP, C27 and C28 under Spec) *)


\* C26: when find_pivots is called with every frontier vertex at a cost below
\* B, every vertex of the set W it returns has a cost below B at the moment of
\* return, and W contains the frontier and every vertex added to a layer
\* (every vertex given a back pointer, and every vertex of all_layers).
LayersBelowBound ==
    [][(FPReturns /\ Top.frontier_below_bound) =>
          /\ \A v \in ret'.set : min_cost_map[v] < Top.bound
          /\ Range(Top.frontier) \subseteq ret'.set
          /\ DOMAIN Top.bp_map \subseteq ret'.set
          /\ Top.all_layers \cup Top.new_layer \subseteq ret'.set]_vars

\* C26 witness: find_pivots, called under a finite bound with its frontier
\* below it, is about to return more vertices than the frontier holds.
LayersBelowFiniteBound ==
    /\ status = "run" /\ stack # << >>
    /\ Top.fn = "find_pivots" /\ Top.pc = "walk" /\ ~Top.walking /\ Top.leaves = {}
    /\ Top.frontier_below_bound /\ Top.bound < Inf
    /\ Top.all_layers # Range(Top.frontier)


\* following the back pointers from v leads to r within fuel steps
RECURSIVE ReachesRoot(_, _, _, _)
ReachesRoot(bp_map, v, r, fuel) ==
    IF v = r THEN TRUE
    ELSE IF v \notin DOMAIN bp_map \/ fuel = 0 THEN FALSE
    ELSE ReachesRoot(bp_map, bp_map[v], r, fuel - 1)

\* the vertices of W in the tree of root r
SubtreeOf(bp_map, W, r) == {v \in W : ReachesRoot(bp_map, v, r, Cardinality(W))}

\* the roots (frontier vertices without back pointer) whose tree within
\* W = all_layers has at least k vertices
LargeRoots(f) ==
    {r \in Range(f.frontier) :
        r \notin DOMAIN f.bp_map /\ Cardinality(SubtreeOf(f.bp_map, f.all_layers, r)) >= K}

\* C27: when find_pivots returns without the early exit, the pivots returned
\* are exactly the roots in F whose tree in the recorded parent forest within
\* W has at least k vertices, whether or not a descendant lies in the last
\* layer.
PivotsAreLargeRoots ==
    [][(FPReturns /\ Top.pc = "walk") => Range(ret'.nodes) = LargeRoots(Top)]_vars


\* C28: the back pointers find_pivots has recorded when the layers are
\* complete form a forest rooted in F: from every vertex of W the back
\* pointers lead, in finitely many steps, to a frontier vertex that has no
\* back pointer (so the walk from a leaf ends).
ParentsFormForest ==
    (status = "run" /\ stack # << >> /\ Top.fn = "find_pivots" /\ Top.pc = "walk") =>
        \A v \in Top.all_layers :
            \E r \in Range(Top.frontier) :
                /\ r \notin DOMAIN Top.bp_map
                /\ ReachesRoot(Top.bp_map, v, r, Cardinality(Top.all_layers))


\* C29: every call of bmssp_bounded made during bmssp_all, at every level,
\* receives a frontier all of whose vertices have a cost below the bound
\* passed to the call (a call at l >= 1 begins with find_pivots on that
\* frontier and bound, a call at l = 0 is base_bmssp on the one frontier
\* vertex).
FrontierBelowBoundAtCall ==
    (status = "run" /\ stack # << >>) =>
        /\ Top.fn = "find_pivots" => Top.frontier_below_bound
        /\ Top.fn = "base_bmssp" => Top.entry_cost < Top.upper_bound


-----------------------------------------------------------------------------
(* Recursion claims (checked under Spec) *)

\* the pull of the loop of bmssp_bounded at level 1 returns one vertex
OnePulled(r) == ~r.st.panic => Len(r.nodes) = 1

\* C30: every call at level 0 receives a frontier of exactly one vertex, so
\* the assertion at level 0 never fails: a call that begins at level 0 has the
\* frontier <<source>>, and at level 1 the list has capacity 1, is pulled only
\* when it is not empty, and a pull that returns hands back one vertex.
LevelZeroGetsOneVertex ==
    /\ status = "idle" => ~CallPanics(StartingL(N), <<start>>)
    /\ (/\ status = "run" /\ stack # << >>
        /\ Top.fn = "bmssp_bounded" /\ Top.pc = "loop" /\ Top.l = 1
        /\ LoopGoesOn(Top)) =>
           /\ Top.block_list.M = 1
           /\ OnePulled(BLPull(Top.block_list))

\* C30 witness: base_bmssp runs on the vertex pulled at level 1 from a list
\* that held more than one vertex.
LevelZeroFromFullerList ==
    /\ status = "run" /\ Len(stack) >= 2
    /\ Top.fn = "base_bmssp"
    /\ stack[Len(stack) - 1].fn = "bmssp_bounded" /\ stack[Len(stack) - 1].l = 1
    /\ ~BLIsEmpty(stack[Len(stack) - 1].block_list)

\* A second family of graphs, in which a batch is staged for a list that still
\* holds entries: the edges 0 -> 3, 0 -> 4, 3 -> 4, 4 -> 2, 2 -> 1, each with
\* a weight of 0..MaxW.
ChainGraphs ==
    {[u \in 0..(NumNodes - 1) |->
          CASE u = 0 -> << <<3, w[1]>>, <<4, w[2]>> >>
            [] u = 3 -> << <<4, w[3]>> >>
            [] u = 4 -> << <<2, w[4]>> >>
            [] u = 2 -> << <<1, w[5]>> >>
            [] OTHER -> << >>] : w \in [1..5 -> 0..MaxW]}

\* A third family, on two vertices more, in which a frame of bmssp_bounded
\* that was given a finite bound pulls: the edges 0 -> 2, 0 -> 3, 2 -> 4,
\* 2 -> 5, 2 -> 1, 3 -> 6, each with a weight of 0..MaxW.
WideGraphs ==
    {[u \in 0..(NumNodes + 1) |->
          CASE u = 0 -> << <<2, w[1]>>, <<3, w[2]>> >>
            [] u = 2 -> << <<4, w[3]>>, <<5, w[4]>>, <<1, w[5]>> >>
            [] u = 3 -> << <<6, w[6]>> >>
            [] OTHER -> << >>] : w \in [1..6 -> 0..MaxW]}

\* A fourth family, in which a relaxation lowers the cost of a vertex the
\* list holds: the edges 0 -> 2, 0 -> 3, 0 -> 1, 1 -> 4, 3 -> 4, each with a
\* weight of 0..MaxW.
ForkGraphs ==
    {[u \in 0..(NumNodes - 1) |->
          CASE u = 0 -> << <<2, w[1]>>, <<3, w[2]>>, <<1, w[3]>> >>
            [] u = 1 -> << <<4, w[4]>> >>
            [] u = 3 -> << <<4, w[5]>> >>
            [] OTHER -> << >>] : w \in [1..5 -> 0..MaxW]}

InitChain ==
    /\ neighbors \in ChainGraphs \cup WideGraphs \cup ForkGraphs
    /\ start \in 0..MaxSource
    /\ status = "idle"
    /\ min_cost_map = << >> /\ stack = << >> /\ ret = NoRet
    /\ dist = NoVec /\ prev = NoVec /\ writes = NoWrites
    /\ bl = NewBlockList(2, 0) /\ nops = 0 /\ last = NoLast /\ pq = PQNew(2, 0)
    /\ tree = TreeNew(2, 0)

SpecChain == InitChain /\ [][Next]_vars


\* the staged batch is within [B_new, B_current) and below every cost the
\* list of frame f holds, in its index and in its blocks
BatchDominates(f, batch) ==
    \A v \in DOMAIN batch :
        /\ f.new_upper_bound <= batch[v] /\ batch[v] < f.current_upper_bound
        /\ DominatingEntry(f.block_list, <<v, batch[v]>>)
        /\ \A i \in 1..Len(AllEntries(f.block_list)) :
               batch[v] < AllEntries(f.block_list)[i][2]

\* C31: every batch_prepend call of bmssp_bounded meets the precondition of
\* batch_prepend: when the loop over new_uset is done, every staged cost c
\* (the frontier vertices included) satisfies B_new <= c < B_current and is
\* strictly below the cost of every entry the list of the frame holds.
StagedBatchDominates ==
    (/\ status = "run" /\ stack # << >>
     /\ Top.fn = "bmssp_bounded" /\ Top.pc = "relax" /\ Top.todo = {}) =>
        BatchDominates(Top, StageFrontier(Top.batch_prepend_elements, Top.new_frontier,
                                          1, min_cost_map, Top))

\* C31 witness: a staged batch is about to be prepended to a list that holds
\* an entry.
StagedBatchOntoEntries ==
    /\ status = "run" /\ stack # << >>
    /\ Top.fn = "bmssp_bounded" /\ Top.pc = "relax" /\ Top.todo = {}
    /\ DOMAIN StageFrontier(Top.batch_prepend_elements, Top.new_frontier,
                             1, min_cost_map, Top) # {}
    /\ ~BLIsEmpty(Top.block_list)


\* C32: every Block List of a bmssp_bounded frame, at every level l >= 1 of a
\* run of bmssp_all, has a block capacity M of at least 2.
ListCapacityAtLeastTwo ==
    \A i \in 1..Len(stack) :
        stack[i].fn = "bmssp_bounded" => stack[i].block_list.M >= 2


\* frame f of bmssp_bounded is inside an iteration of its loop: it has pulled
InIteration(f) == f.fn = "bmssp_bounded" /\ f.pc \in {"call", "relax"}

\* C33: in every iteration of the loop of bmssp_bounded the bound returned by
\* pull is at most B_upper and the bound returned by the recursive call is at
\* most the pulled bound, so every call of bmssp_bounded and of base_bmssp
\* returns a bound that is at most the bound it was given.
BoundsOnlyShrink ==
    status = "run" =>
        /\ \A i \in 1..Len(stack) :
               InIteration(stack[i]) =>
                   stack[i].current_upper_bound <= stack[i].upper_bound
        /\ \A i \in 1..Len(stack) :
               (stack[i].fn = "bmssp_bounded" /\ stack[i].pc = "relax") =>
                   stack[i].new_upper_bound <= stack[i].current_upper_bound
        /\ (stack # << >> /\ Top.fn = "bmssp_bounded" /\ Top.pc = "call"
            /\ ret.kind = "uset") => ret.bound <= Top.current_upper_bound
        /\ (stack = << >> /\ ret.kind = "uset") => ret.bound <= Inf

\* C33 witness: a frame given a finite B_upper has pulled a bound below
\* B_upper, and the recursive call on that bound has returned.
PulledBelowFiniteBound ==
    /\ status = "run" /\ stack # << >>
    /\ Top.fn = "bmssp_bounded" /\ Top.pc = "call"
    /\ ret.kind = "uset"
    /\ Top.current_upper_bound < Top.upper_bound
    /\ Top.upper_bound < Inf


\* the relaxation of the edge node_id -> e[1] by frame f would insert e[1]
\* into the list of f, which holds it at a larger cost: update removes the
\* old entry from its block
RelaxUpdates(f, node_id, e) ==
    /\ e[1] \in DOMAIN f.block_list.cost_map
    /\ AddCost(min_cost_map[node_id], e[2]) < f.block_list.cost_map[e[1]].cost
    /\ f.current_upper_bound <= AddCost(min_cost_map[node_id], e[2])
    /\ AddCost(min_cost_map[node_id], e[2]) < f.upper_bound

\* C35: no run of bmssp_all on a valid input aborts: no insert of a pivot or
\* of a relaxed vertex has a cost above the B of the list, no pivot has
\* d[p] > B_upper, and no removal by update or by pull fails to find the
\* block of the entry.
NoFatalAssertion == status # "panic"

\* C35 witness: a frame whose list took its pivots and was pulled from is
\* about to relax an edge to a vertex the list holds at a larger cost.
RelaxAboutToUpdate ==
    /\ status = "run" /\ stack # << >>
    /\ Top.fn = "bmssp_bounded" /\ Top.pc = "relax"
    /\ \E node_id \in Top.todo :
           \E i \in 1..Len(neighbors[node_id]) :
               RelaxUpdates(Top, node_id, neighbors[node_id][i])

=============================================================================
